---- MODULE Spec2Model ----
(***************************************************************************)
(* gcoap: the CoAP request/response engine of sys/net/application_layer/   *)
(* gcoap/gcoap.c.  Application threads submit requests with                *)
(* gcoap_req_send2 (and notifications with gcoap_obs_send); the engine     *)
(* thread (_event_loop) drains TIMEOUT messages and handles one datagram   *)
(* per loop iteration in _listen.                                          *)
(***************************************************************************)
EXTENDS Integers, Sequences, FiniteSets, TLC

\* ----------------------------------------------------------------------
\* Compile-time configuration (net/gcoap.h, net/nanocoap.h)
GCOAP_REQ_WAITING_MAX == 2
GCOAP_RESEND_BUFS_MAX == 2
GCOAP_OBS_CLIENTS_MAX == 2
GCOAP_OBS_REGISTRATIONS_MAX == 2
GCOAP_MSG_QUEUE_SIZE == 4
COAP_MAX_RETRANSMIT == 2
\* the value COAP_MAX_RETRANSMIT has unless a build sets another one
COAP_MAX_RETRANSMIT_DEFAULT == 4
COAP_ACK_TIMEOUT == 2
\* COAP_RANDOM_FACTOR is 1.5: numerator and denominator
COAP_RANDOM_FACTOR == <<3, 2>>
\* GCOAP_NON_TIMEOUT is 5000000 us; timeouts are kept in seconds here
GCOAP_NON_TIMEOUT == 5
GCOAP_SEND_LIMIT_NON == -1
KERNEL_PID_UNDEF == 0
EEXIST == 17
\* a tick of the Observe clock is 2^GCOAP_OBS_TICK_EXPONENT microseconds
GCOAP_OBS_TICK_EXPONENT == 5

\* ----------------------------------------------------------------------
\* Bounds of the model
\* application threads that call gcoap_req_send2 / gcoap_obs_send
NumThreads == 2
\* requests built (calls of gcoap_req_init)
MaxReqs == 2
\* requests built where the table of open requests fills up
MaxReqsFull == 3
\* requests submitted by the single thread of SpecOne
MaxReqsOne == 4
\* distinct non-empty token values of the requests a client submits
MaxTok == 1
\* distinct non-empty token values of the requests a server receives
MaxObsTok == 2
\* distinct remote endpoints
NumRemotes == 2
\* distinct remote endpoints of the requests a server receives
NumObsRemotes == 3
\* notifications built (calls of gcoap_obs_init that find an observer)
MaxNotifs == 1
\* notifications built where observers answer them with RST
MaxNotifsRst == 2
\* handler invocations recorded for the tracked request
MaxCalls == 3
\* listeners an application registers with gcoap_register_listener
MaxListeners == 2
\* resources of one registered listener
MaxResources == 2
\* the largest maxlen given to gcoap_get_resource_list
MaxLen == 24
\* calls of gcoap_init
MaxInits == 3
\* requests built where every request is to come to its end
MaxReqsLive == 2
\* message IDs handed out where the counter wraps
MaxIds == 3
\* microseconds the clock runs on from its start
MaxRun == 64
\* notifications built while the clock runs
MaxNotifsTick == 2
\* requests built where the transmissions are timed
MaxReqsTime == 2
\* the values random_uint32_range gives between its ends
JitterSteps == 2

Threads == 1..NumThreads
\* the pid thread_create gives the engine thread
EnginePid == NumThreads + 1
MemoIdx == 1..GCOAP_REQ_WAITING_MAX
BufIdx == 1..GCOAP_RESEND_BUFS_MAX
ObsIdx == 1..GCOAP_OBS_CLIENTS_MAX
ObsMemoIdx == 1..GCOAP_OBS_REGISTRATIONS_MAX
Remotes == 1..NumRemotes
\* token 0 stands for the zero-length token
Tokens == 0..MaxTok

Min(S) == CHOOSE x \in S : \A y \in S : x <= y
Max(S) == CHOOSE x \in S : \A y \in S : x >= y

VARIABLES
    wait_for_response,  \* GCOAP_SEND_WAIT_FOR_RESPONSE of the build
    open_reqs,          \* _coap_state.open_reqs
    resend_bufs,        \* _coap_state.resend_bufs
    observers,          \* _coap_state.observers
    observe_memos,      \* _coap_state.observe_memos
    lock,               \* _coap_state.lock: 0, or the thread that holds it
    next_message_id,    \* _coap_state.next_message_id
    msg_queue,          \* message queue of the engine thread (TIMEOUT memo)
    intr,               \* a GCOAP_MSG_TYPE_INTR message waits in the sock mbox
    bounded,            \* _listen chose GCOAP_RECV_TIMEOUT for its recv
    thr,                \* per application thread: position and locals
    tracked,            \* the message ID of the request under observation
    sent,               \* datagrams with that message ID that were transmitted
    calls,              \* states its response handler was called with
    pdus,               \* and the pdu argument of each of these calls
    failed,             \* some sock_udp_send did not transmit its datagram
    fault,              \* a NULL or wild pointer was dereferenced
    listeners,          \* the chain of listeners, _default_listener first
    app,                \* the last call of gcoap_find_resource or
                        \* gcoap_get_resource_list and what it returned
    now,                \* xtimer_now_usec()
    max_retransmit,     \* COAP_MAX_RETRANSMIT of the build
    random_factor,      \* COAP_RANDOM_FACTOR of the build, as <<num, den>>
    elapsed,            \* seconds the tracked request has waited for its
                        \* response timer since it was submitted
    times,              \* elapsed at each transmission of that request
    last_observe,       \* the Observe value last generated for a
                        \* registration of /.well-known/core (-1: none)
    _pid,               \* _pid: KERNEL_PID_UNDEF or what thread_create gave
    engine,             \* the engine thread: "none", "running" (it has its
                        \* sock) or "exited" (_event_loop has returned)
    init_ret,           \* what the calls of gcoap_init returned
    msgids,             \* the message IDs handed out, in order
    tdsec               \* the tinydtls sock wrapper: the call in progress
                        \* and the endpoints and session it converts

vars == <<wait_for_response, open_reqs, resend_bufs, observers, observe_memos,
          lock, next_message_id, msg_queue, intr, bounded, thr, tracked,
          sent, calls, pdus, failed, fault, listeners, app, now, last_observe,
          max_retransmit, random_factor, elapsed, times, _pid, engine,
          init_ret, msgids, tdsec>>

\* ----------------------------------------------------------------------
\* Data

\* the first bytes of a PDU: b0 is "first byte intact" (it holds version,
\* type and token length; clearing it frees a resend buffer)
ZeroHdr == [b0 |-> FALSE, type |-> "CON", token |-> 0, id |-> 0]

\* coap_get_type / ver_t_tkl & 0x30: a zeroed first byte reads as type 0 (CON)
hdr_type(h) == IF h.b0 THEN h.type ELSE "CON"

\* ver_t_tkl & 0xf: a zeroed first byte reads as token length 0
hdr_token(h) == IF h.b0 THEN h.token ELSE 0

\* memset(.., 0, ..) of one gcoap_request_memo_t
ZeroMemo == [state |-> "UNUSED", send_limit |-> 0, resp_handler |-> 0,
             pdu_buf |-> 0, hdr_buf |-> ZeroHdr, remote_ep |-> 0,
             response_timer |-> 0, waiting_thread |-> 0]

\* memset(.., 0, ..) of one gcoap_observe_memo_t
ZeroObsMemo == [observer |-> 0, resource |-> <<0, 0>>, token |-> 0]

\* memset(.., 0, ..) of one observer (sock_udp_ep_t): family AF_UNSPEC
ZeroObserver == [family |-> "AF_UNSPEC", ep |-> 0]

\* an application thread outside gcoap_req_send2; res is what its last call
\* returned (-1: no call yet)
NoResource == <<0, 0>>

IdleThread == [pc |-> "idle", memo |-> 0, buf |-> ZeroHdr, handler |-> 0,
               remote |-> 0, remote_ptr |-> 0, resource |-> NoResource,
               obs |-> 0, timeout |-> 0, res |-> -1]

\* the tinydtls wrapper outside tdsec_send and tdsec_read_msg, before
\* its first call
IdleTdsec == [pc |-> "idle"]

\* no call of gcoap_find_resource or gcoap_get_resource_list so far
NoCall == [op |-> "none"]

\* the response _listen sends for a request; none so far in this iteration
NoReply == [code |-> "none", handler |-> NoResource, observe |-> FALSE,
            remote |-> 0]

\* the numbers of the memo states (GCOAP_MEMO_*), as gcoap_req_send2 returns them
StateCode(st) ==
    CASE st = "UNUSED" -> 0 [] st = "WAIT" -> 1 [] st = "RESP" -> 2
      [] st = "TIMEOUT" -> 3

\* what sock_udp_send may return: the length sent, 0, or a negative errno
\* (which is non-zero once stored in a size_t)
SendResults == {"ok", "zero", "err"}

\* what a dereference of a NULL pointer does: the access traps, or it reads
\* bytes that match nothing and writes without effect
NullOutcomes == {"trap", "ignored"}

\* what one handler works on and leaves behind; ub is what a dereference of
\* NULL does while it runs
Cur == [open_reqs |-> open_reqs, resend_bufs |-> resend_bufs,
        observers |-> observers, observe_memos |-> observe_memos,
        thr |-> thr, sent |-> sent, calls |-> calls, pdus |-> pdus,
        failed |-> failed,
        replies |-> NoReply, ub |-> "trap",
        fault |-> fault, last_observe |-> last_observe, times |-> times]

Commit(S) ==
    /\ open_reqs' = S.open_reqs
    /\ resend_bufs' = S.resend_bufs
    /\ observers' = S.observers
    /\ observe_memos' = S.observe_memos
    /\ thr' = S.thr
    /\ sent' = S.sent
    /\ calls' = S.calls
    /\ pdus' = S.pdus
    /\ failed' = S.failed
    /\ fault' = S.fault
    /\ last_observe' = S.last_observe
    /\ times' = S.times

Fault(S) == [S EXCEPT !.fault = TRUE]

\* ----------------------------------------------------------------------
\* Lookups in the slot tables

MinOrNone(X) == IF X = {} THEN 0 ELSE Min(X)
MaxOrNone(X) == IF X = {} THEN 0 ELSE Max(X)

\* the result of _find_observer when the scan stops at observer m (0: it
\* runs to the end): m and the last empty slot the scan has seen
observer_slots(S, m) ==
    [observer |-> m,
     empty_slot |-> MaxOrNone({i \in ObsIdx :
                                 /\ S.observers[i].family = "AF_UNSPEC"
                                 /\ (m = 0 \/ i < m)})]

\* _find_observer: the registered observer for a remote (0: none)
_find_observer(S, remote) ==
    observer_slots(S, MinOrNone({i \in ObsIdx :
                                   /\ S.observers[i].family # "AF_UNSPEC"
                                   /\ S.observers[i].ep = remote}))

\* the result of _find_obs_memo when the scan stops at memo m
obs_memo_slots(S, m) ==
    [memo |-> m,
     empty_slot |-> MaxOrNone({i \in ObsMemoIdx :
                                 /\ S.observe_memos[i].observer = 0
                                 /\ (m = 0 \/ i < m)})]

\* _find_obs_memo: the observe memo of (remote, token); token_len -1 of the
\* source, match on the observer only, is token = -1 here
_find_obs_memo(S, remote, token) ==
    obs_memo_slots(S,
        MinOrNone({i \in ObsMemoIdx :
                     /\ S.observe_memos[i].observer # 0
                     /\ S.observe_memos[i].observer
                            = _find_observer(S, remote).observer
                     /\ (token = -1 \/ S.observe_memos[i].token = token)}))

\* _find_obs_memo_resource: the first in-use observe memo of a resource
_find_obs_memo_resource(S, resource) ==
    MinOrNone({i \in ObsMemoIdx : /\ S.observe_memos[i].observer # 0
                                  /\ S.observe_memos[i].resource = resource})

\* the end of _clear_obs_memo: other is the memo still found for the remote,
\* observer the observer found for it
clear_observer(S, other, observer) ==
    IF other = 0 /\ observer # 0
    THEN [S EXCEPT !.observers[observer].family = "AF_UNSPEC"]
    ELSE S

\* _clear_obs_memo after memo->observer = NULL
clear_remote(S, remote) ==
    clear_observer(S, _find_obs_memo(S, remote, -1).memo,
                   _find_observer(S, remote).observer)

\* a variant that releases the observer and leaves memo->observer as it is
_clear_obs_memo_kept(S, memo, remote) ==
    clear_observer(S, 0, _find_observer(S, remote).observer)

\* _clear_obs_memo: clear the memo, and the observer if no memo is left
_clear_obs_memo(S, memo, remote) ==
    clear_remote([S EXCEPT !.observe_memos[memo].observer = 0], remote)

\* the header _find_req_memo reads for a memo: hdr_buf of a non-confirmable
\* one, else what pdu_buf points to (which must be a resend buffer)
MemoHdrOk(S, i) ==
    \/ S.open_reqs[i].send_limit = GCOAP_SEND_LIMIT_NON
    \/ S.open_reqs[i].pdu_buf \in BufIdx

MemoHdr(S, i) ==
    IF S.open_reqs[i].send_limit = GCOAP_SEND_LIMIT_NON
    THEN S.open_reqs[i].hdr_buf
    ELSE S.resend_bufs[S.open_reqs[i].pdu_buf]

\* the memos _find_req_memo does not skip whose header can be read
GoodMemos(S) ==
    {i \in MemoIdx : S.open_reqs[i].state # "UNUSED" /\ MemoHdrOk(S, i)}

\* those whose pdu_buf points nowhere
BadMemos(S) ==
    {i \in MemoIdx : S.open_reqs[i].state # "UNUSED" /\ ~MemoHdrOk(S, i)}

\* _find_req_memo by token stops at memo m (0: at the end of the table)
token_scan(S, m) ==
    [memo |-> m, fault |-> \E i \in BadMemos(S) : m = 0 \/ i < m]

\* _find_req_memo: by message ID the last matching memo, by token the first;
\* fault when the scan reads the header of a memo through a NULL pdu_buf
_find_req_memo(S, d, match_type) ==
    IF match_type = "MSGID"
    THEN [memo |-> MaxOrNone({i \in GoodMemos(S) : MemoHdr(S, i).id = d.id}),
          fault |-> BadMemos(S) # {}]
    ELSE token_scan(S, MinOrNone({i \in GoodMemos(S) :
                                    hdr_token(MemoHdr(S, i)) = d.token}))

\* gcoap_op_state: the number of open requests
gcoap_op_state(S) ==
    Cardinality({i \in MemoIdx : S.open_reqs[i].state # "UNUSED"})

\* thread_wakeup: makes a sleeping thread runnable; no effect on any other
thread_wakeup(S, t) ==
    IF t \in Threads /\ S.thr[t].pc = "asleep"
    THEN [S EXCEPT !.thr[t].pc = "woken"]
    ELSE S

\* a call of the response handler registered as h with a memo state and a
\* pdu: "resp", the response received, "req", a coap_pkt_t of which only hdr
\* is set (to the header of the request), or "null"
call_handler(S, h, state, pdu) ==
    IF h # 0 /\ h = tracked
    THEN [S EXCEPT !.calls = Append(@, state), !.pdus = Append(@, pdu)]
    ELSE S

\* sock_udp_send of a datagram with message ID id returns res
transmit(S, id, res) ==
    IF res # "ok" THEN [S EXCEPT !.failed = TRUE]
    ELSE IF id # 0 /\ id = tracked
    THEN [S EXCEPT !.sent = @ + 1, !.times = Append(@, elapsed)]
    ELSE S

\* *memo->msg.data.pdu_buf = 0;
clear_resend_buf(S, i) ==
    [S EXCEPT !.resend_bufs[S.open_reqs[i].pdu_buf].b0 = FALSE]

\* memo->state = GCOAP_MEMO_UNUSED;
free_memo(S, i) == [S EXCEPT !.open_reqs[i].state = "UNUSED"]

\* ----------------------------------------------------------------------
\* Timeouts

\* the end of _expire_request: the memo is released or, in the build
\* with GCOAP_SEND_WAIT_FOR_RESPONSE, the submitter is woken
expire_finish(S, i) ==
    IF wait_for_response
    THEN thread_wakeup(S, S.open_reqs[i].waiting_thread)
    ELSE free_memo(S, i)

\* a variant that leaves the observer registered
expire_observer_kept(S, i, obs_memo) == S

\* _expire_request of a confirmable memo whose token belongs to obs_memo
\* (0: to none): the observer is deregistered, the resend buffer cleared
expire_observer(S, i, obs_memo) ==
    IF obs_memo = 0 THEN S
    ELSE _clear_obs_memo(S, obs_memo, S.open_reqs[i].remote_ep)

expire_confirmable(S, i) ==
    IF wait_for_response THEN S ELSE clear_resend_buf(S, i)

\* _expire_request after the call of the handler
expire_memo(S, i) ==
    IF S.open_reqs[i].send_limit = GCOAP_SEND_LIMIT_NON
    THEN expire_finish(S, i)
    ELSE IF S.open_reqs[i].pdu_buf \notin BufIdx
    THEN IF S.ub = "trap" THEN Fault(S) ELSE expire_finish(S, i)
    ELSE expire_finish(
           expire_confirmable(
             expire_observer(S, i,
               _find_obs_memo(S, S.open_reqs[i].remote_ep,
                   hdr_token(S.resend_bufs[S.open_reqs[i].pdu_buf])).memo),
             i),
           i)

\* a variant that hands the response handler no pdu
_expire_request_null(S, i) ==
    IF S.open_reqs[i].state # "WAIT" THEN S
    ELSE expire_memo(
           call_handler([S EXCEPT !.open_reqs[i].state = "TIMEOUT"],
                        S.open_reqs[i].resp_handler, "TIMEOUT", "null"),
           i)

\* _expire_request
_expire_request(S, i) ==
    IF S.open_reqs[i].state # "WAIT" THEN S
    ELSE expire_memo(
           call_handler([S EXCEPT !.open_reqs[i].state = "TIMEOUT"],
                        S.open_reqs[i].resp_handler, "TIMEOUT", "req"),
           i)

\* shift of COAP_ACK_TIMEOUT in the resend branch of _event_loop
Pow2(n) == IF n <= 0 THEN 1 ELSE 2 ^ n

\* what random_uint32_range can be asked to choose: the lower end only when
\* the build has no jitter
JitterChoices ==
    IF random_factor[1] = random_factor[2] THEN {0} ELSE 0..JitterSteps

\* random_uint32_range(timeout, timeout * COAP_RANDOM_FACTOR): the choice
\* jit of JitterSteps + 1 values spread from the lower to the upper end
random_uint32_range(timeout, jit) ==
    timeout
      + (((timeout * random_factor[1]) \div random_factor[2] - timeout) * jit)
            \div JitterSteps

\* a variant that sets the timer to the initial timeout again
resend_sent_initial(S, i, timeout, res) ==
    IF res = "zero" THEN _expire_request(S, i)
    ELSE [S EXCEPT !.open_reqs[i].response_timer = COAP_ACK_TIMEOUT]

\* the resend of _event_loop after sock_udp_send has returned res: "ok"
\* (sent), "zero" (0) or "err" (negative, which is true as a size_t)
resend_sent(S, i, timeout, res) ==
    IF res = "zero" THEN _expire_request(S, i)
    ELSE [S EXCEPT !.open_reqs[i].response_timer = timeout]

\* the resend of _event_loop after the decrement of send_limit
resend(S, i, timeout, res) ==
    IF S.open_reqs[i].pdu_buf \notin BufIdx
    THEN IF S.ub = "trap" THEN Fault(S) ELSE resend_sent(S, i, timeout, res)
    ELSE resend_sent(
           transmit(S, S.resend_bufs[S.open_reqs[i].pdu_buf].id, res),
           i, timeout, res)

\* a variant that does not add 1 to advance the timeout
event_timeout_same(S, i, res, jit) ==
    IF \/ S.open_reqs[i].send_limit = GCOAP_SEND_LIMIT_NON
       \/ S.open_reqs[i].send_limit = 0
    THEN _expire_request(S, i)
    ELSE resend([S EXCEPT !.open_reqs[i].send_limit = @ - 1], i,
                random_uint32_range(
                    COAP_ACK_TIMEOUT
                      * Pow2(max_retransmit - S.open_reqs[i].send_limit),
                    jit),
                res)

\* _event_loop, case GCOAP_MSG_TYPE_TIMEOUT; jit is the value
\* random_uint32_range chooses
event_timeout(S, i, res, jit) ==
    IF \/ S.open_reqs[i].send_limit = GCOAP_SEND_LIMIT_NON
       \/ S.open_reqs[i].send_limit = 0
    THEN _expire_request(S, i)
    ELSE resend([S EXCEPT !.open_reqs[i].send_limit = @ - 1], i,
                random_uint32_range(
                    COAP_ACK_TIMEOUT
                      * Pow2(max_retransmit - S.open_reqs[i].send_limit + 1),
                    jit),
                res)

\* ----------------------------------------------------------------------
\* Incoming empty messages and responses

\* _listen, empty ACK or RST for the confirmable memo i whose token belongs
\* to obs_memo (0: to none, and then nothing is done)
empty_observer(S, d, i, obs_memo) ==
    IF obs_memo = 0 THEN S
    ELSE free_memo(
           clear_resend_buf(
             IF d.type = "RST"
             THEN _clear_obs_memo(
                    [S EXCEPT !.open_reqs[i].response_timer = 0],
                    obs_memo, S.open_reqs[i].remote_ep)
             ELSE [S EXCEPT !.open_reqs[i].response_timer = 0],
             i),
           i)

\* _listen, empty message, f the result of _find_req_memo
empty_found(S, d, f) ==
    IF f.fault /\ S.ub = "trap" THEN Fault(S)
    ELSE IF \/ f.memo = 0
            \/ d.type \notin {"ACK", "RST"}
            \/ S.open_reqs[f.memo].send_limit < 0
    THEN S
    ELSE empty_observer(S, d, f.memo,
           _find_obs_memo(S, d.remote,
               hdr_token(S.resend_bufs[S.open_reqs[f.memo].pdu_buf])).memo)

\* _listen, pdu.hdr->code == COAP_CODE_EMPTY
listen_empty(S, d) == empty_found(S, d, _find_req_memo(S, d, "MSGID"))

\* _listen after the call of the response handler
response_finish(S, i) ==
    IF wait_for_response
    THEN thread_wakeup(S, S.open_reqs[i].waiting_thread)
    ELSE free_memo(IF S.open_reqs[i].send_limit >= 0
                   THEN clear_resend_buf(S, i) ELSE S,
                   i)

\* _listen, a response, f the result of _find_req_memo
response_found(S, d, f) ==
    IF f.fault /\ S.ub = "trap" THEN Fault(S)
    ELSE IF f.memo = 0 \/ d.type \notin {"NON", "ACK"} THEN S
    ELSE response_finish(
           call_handler([S EXCEPT !.open_reqs[f.memo].response_timer = 0,
                                  !.open_reqs[f.memo].state = "RESP"],
                        S.open_reqs[f.memo].resp_handler, "RESP", "resp"),
           f.memo)

\* _listen, an incoming response (class SUCCESS, CLIENT_FAILURE, SERVER_FAILURE)
listen_response(S, d) == response_found(S, d, _find_req_memo(S, d, "TOKEN"))

\* ----------------------------------------------------------------------
\* Incoming requests

\* the listener chain: _default_listener with /.well-known/core, then one
\* registered listener.  Paths are numbered in strcmp order:
\* 1 "/.well-known/core", 2 "/a", 3 "/bb", 4 "/c"
_default_resources == << [path |-> 1, methods |-> {"GET"}] >>

Listeners ==
    << _default_resources,
       << [path |-> 2, methods |-> {"GET"}],
          [path |-> 4, methods |-> {"GET", "PUT"}] >> >>

Paths == 1..4
Methods == {"GET", "PUT"}

\* a variant with the two outcomes of strcmp exchanged
RECURSIVE ScanResourcesSwapped(_, _, _, _)
ScanResourcesSwapped(rs, i, url, method) ==
    IF i > Len(rs) THEN 0
    ELSE IF method \notin rs[i].methods
    THEN ScanResourcesSwapped(rs, i + 1, url, method)
    ELSE IF url < rs[i].path THEN ScanResourcesSwapped(rs, i + 1, url, method)
    ELSE IF url > rs[i].path THEN 0
    ELSE i

\* the for loop of _find_resource over one listener's resources, from index i
RECURSIVE ScanResources(_, _, _, _)
ScanResources(rs, i, url, method) ==
    IF i > Len(rs) THEN 0
    ELSE IF method \notin rs[i].methods THEN ScanResources(rs, i + 1, url, method)
    ELSE IF url > rs[i].path THEN ScanResources(rs, i + 1, url, method)
    ELSE IF url < rs[i].path THEN 0
    ELSE i

\* the index at which that loop is left, by break or return, or
\* Len(rs) + 1 when it runs to its end
RECURSIVE ScanEnd(_, _, _, _)
ScanEnd(rs, i, url, method) ==
    IF i > Len(rs) THEN i
    ELSE IF method \notin rs[i].methods THEN ScanEnd(rs, i + 1, url, method)
    ELSE IF url > rs[i].path THEN ScanEnd(rs, i + 1, url, method)
    ELSE i

\* the while loop of _find_resource over the listeners, from listener l
RECURSIVE ScanListeners(_, _, _, _)
ScanListeners(L, l, url, method) ==
    IF l > Len(L) THEN NoResource
    ELSE LET i == ScanResources(L[l], 1, url, method)
         IN  IF i # 0 THEN <<l, i>> ELSE ScanListeners(L, l + 1, url, method)

\* _find_resource
_find_resource(L, url, method) == ScanListeners(L, 1, url, method)

\* the resource whose Observe values are recorded: /.well-known/core
ObservedResource == <<1, 1>>

\* (now >> GCOAP_OBS_TICK_EXPONENT) & 0xFFFFFF
observe_value(t) == (t \div 2 ^ GCOAP_OBS_TICK_EXPONENT) % 2 ^ 24

\* pdu->observe_value is set for a message about resource
generate_value(last, resource) ==
    IF resource = ObservedResource THEN observe_value(now) ELSE last

\* _handle_req, if (memo != NULL): the memo is written and the initial
\* notification value generated; else the Observe option is cleared.  Gives
\* the tables and whether the option is still set
register_write(S, d, resource, memo, observer) ==
    IF memo = 0 THEN [S |-> S, observe |-> FALSE]
    ELSE [S |-> [S EXCEPT !.observe_memos[memo] =
                            [observer |-> observer, resource |-> resource,
                             token |-> d.token],
                          !.last_observe = generate_value(@, resource)],
          observe |-> TRUE]

\* _handle_req, a new memo in empty_slot; fo is the result of _find_observer
register_observer(S, d, resource, empty_slot, fo) ==
    IF fo.observer # 0
    THEN register_write(S, d, resource, empty_slot, fo.observer)
    ELSE IF fo.empty_slot # 0
    THEN register_write([S EXCEPT !.observers[fo.empty_slot] =
                            [family |-> "AF_INET6", ep |-> d.remote]],
                        d, resource, empty_slot, fo.empty_slot)
    ELSE register_write(S, d, resource, 0, 0)

\* a variant that does not look for a memo of the resource
register_memo_any(S, d, resource, fm) ==
    IF fm.memo # 0 THEN register_write(S, d, resource, fm.memo, 0)
    ELSE IF fm.empty_slot # 0
    THEN register_observer(S, d, resource, fm.empty_slot,
                           _find_observer(S, d.remote))
    ELSE register_write(S, d, resource, 0, 0)

\* a variant that looks for an observer slot before it looks at empty_slot
register_memo_eager(S, d, resource, fm) ==
    IF fm.memo # 0 THEN register_write(S, d, resource, fm.memo, 0)
    ELSE IF _find_obs_memo_resource(S, resource) = 0
    THEN register_observer(S, d, resource, fm.empty_slot,
                           _find_observer(S, d.remote))
    ELSE register_write(S, d, resource, 0, 0)

\* _handle_req, Observe = 0; fm is the result of _find_obs_memo.  A memo that
\* is found is written with the local observer, which is still NULL
register_memo(S, d, resource, fm) ==
    IF fm.memo # 0 THEN register_write(S, d, resource, fm.memo, 0)
    ELSE IF fm.empty_slot # 0 /\ _find_obs_memo_resource(S, resource) = 0
    THEN register_observer(S, d, resource, fm.empty_slot,
                           _find_observer(S, d.remote))
    ELSE register_write(S, d, resource, 0, 0)

\* _handle_req, Observe = 0 (COAP_OBS_REGISTER)
handle_register(S, d, resource) ==
    register_memo(S, d, resource, _find_obs_memo(S, d.remote, d.token))

\* the end of the deregistration
deregister_memo(S, d, memo) ==
    IF memo # 0 THEN _clear_obs_memo(S, memo, d.remote) ELSE S

\* _handle_req, Observe = 1 (COAP_OBS_DEREGISTER)
handle_deregister(S, d) ==
    deregister_memo(S, d, _find_obs_memo(S, d.remote, d.token).memo)

\* _handle_req, the handling of the Observe option
handle_observe(S, d, resource) ==
    IF d.observe = 0 THEN handle_register(S, d, resource)
    ELSE IF d.observe = 1
    THEN [S |-> handle_deregister(S, d), observe |-> FALSE]
    ELSE [S |-> S, observe |-> FALSE]

\* _handle_req, the call of the resource handler, and the send in _listen;
\* r is the result of handle_observe
handle_reply(r, d, resource) ==
    [r.S EXCEPT !.replies =
        [code |-> IF d.hres = "ok" THEN "2.05" ELSE "5.00",
         handler |-> resource, observe |-> r.observe, remote |-> d.remote]]

\* a variant that handles the Observe option before it looks at the resource
handle_resource_late(S, d, resource) ==
    IF d.observe \notin {-1, 0, 1} /\ resource # NoResource
    THEN [S EXCEPT !.replies = [code |-> "garbage", handler |-> NoResource,
                                observe |-> TRUE, remote |-> d.remote]]
    ELSE IF resource = NoResource
    THEN [handle_observe(S, d, resource).S EXCEPT
            !.replies = [code |-> "4.04", handler |-> NoResource,
                         observe |-> FALSE, remote |-> d.remote]]
    ELSE handle_reply(handle_observe(S, d, resource), d, resource)

\* _handle_req for the resource _find_resource gives
handle_resource(S, d, resource) ==
    IF resource = NoResource
    THEN [S EXCEPT !.replies = [code |-> "4.04", handler |-> NoResource,
                                observe |-> FALSE, remote |-> d.remote]]
    ELSE IF d.observe \notin {-1, 0, 1}
    THEN [S EXCEPT !.replies = [code |-> "garbage", handler |-> NoResource,
                                observe |-> TRUE, remote |-> d.remote]]
    ELSE handle_reply(handle_observe(S, d, resource), d, resource)

\* _handle_req and the send of its result in _listen; d.observe is -1 when
\* the request has no Observe option; d.hres is what the resource handler
\* returns for it ("ok": a 2.05 response, "neg": a negative value)
_handle_req(S, d) ==
    handle_resource(S, d, _find_resource(listeners, d.path, d.method))

\* _listen on one received datagram
_listen(S, d) ==
    IF ~d.ok THEN S
    ELSE IF d.class = "EMPTY" THEN listen_empty(S, d)
    ELSE IF d.class = "REQ"
         THEN IF d.type \in {"NON", "CON"} THEN _handle_req(S, d) ELSE S
    ELSE IF d.class \in {"SUCCESS", "CLIENT_FAILURE", "SERVER_FAILURE"}
         THEN listen_response(S, d)
    ELSE S

MsgTypes == {"CON", "NON", "ACK", "RST"}

\* datagrams: a response is matched by its token alone and an empty message
\* by its message ID alone, so the field that is not read is fixed
ResponseDatagrams ==
    [ok : {TRUE}, type : MsgTypes,
     class : {"SUCCESS", "CLIENT_FAILURE", "SERVER_FAILURE"},
     id : {0}, token : Tokens, remote : Remotes, observe : {-1}, path : {1},
     method : {"GET"}, hres : {"ok"}]

EmptyDatagrams ==
    [ok : {TRUE}, type : MsgTypes, class : {"EMPTY"}, id : 0..MaxReqs,
     token : {0}, remote : Remotes, observe : {-1}, path : {1},
     method : {"GET"}, hres : {"ok"}]

RequestDatagrams ==
    [ok : {TRUE}, type : MsgTypes, class : {"REQ"}, id : {0},
     token : 0..MaxObsTok,
     remote : 1..NumObsRemotes, observe : {-1, 0, 1, 2}, path : Paths,
     method : Methods, hres : {"ok", "neg"}]

\* a datagram coap_parse rejects, and one of a reserved code class
OtherDatagrams ==
    [ok : BOOLEAN, type : {"CON"}, class : {"OTHER"}, id : {0}, token : {0},
     remote : {1}, observe : {-1}, path : {1}, method : {"GET"},
     hres : {"ok"}]

\* ----------------------------------------------------------------------
\* gcoap_req_send2, on an application thread

\* the call returns r; the value is kept for the tracked request only
Return(t, r) ==
    [thr EXCEPT ![t] =
       [IdleThread EXCEPT
          !.res = IF tracked # 0 /\ thr[t].buf.id = tracked THEN r ELSE @]]

\* the message types an application gives its requests; a type that is
\* neither CON nor NON is the "illegal msg type" of gcoap_req_send2
ReqTypes == {"CON", "NON", "ACK"}

\* a variant in which the increment of the counter is lost
atomic_fetch_add_lost(v) == v

\* next_message_id after atomic_fetch_add(&_coap_state.next_message_id, 1).
\* The counter is kept modulo 2^16: the message ID is its value cast to
\* uint16_t, so the bits above are never read, and the increment modulo the
\* width of unsigned acts on the low 16 bits as an increment modulo 2^16
atomic_fetch_add(v) == (v + 1) % 2 ^ 16

\* the remote an application sends its requests to
RequestRemote == 1

\* gcoap_req_init (the message ID is fetched, a token of GCOAP_TOKENLEN
\* bytes drawn) followed by the entry of gcoap_req_send2 up to mutex_lock
ReqInit(t, max, types) ==
    /\ ~fault
    /\ _pid # KERNEL_PID_UNDEF
    /\ thr[t].pc = "idle"
    /\ Len(msgids) < max
    /\ lock = 0
    /\ \E type \in types, token \in Tokens \ {0} :
         thr' = [thr EXCEPT ![t] =
                   [IdleThread EXCEPT
                      !.pc = "scan",
                      !.buf = [b0 |-> TRUE, type |-> type, token |-> token,
                               id |-> next_message_id],
                      !.handler = next_message_id,
                      !.remote = RequestRemote]]
    /\ \E track \in IF tracked = 0 THEN BOOLEAN ELSE {FALSE} :
         tracked' = IF track THEN next_message_id ELSE tracked
    /\ lock' = t
    /\ next_message_id' = atomic_fetch_add(next_message_id)
    /\ msgids' = Append(msgids, next_message_id)
    /\ UNCHANGED <<wait_for_response, tdsec, _pid, engine, init_ret, pdus,
                   max_retransmit, random_factor, elapsed, times, now,
                   last_observe, listeners, app, open_reqs, resend_bufs,
                   observers, observe_memos, msg_queue, intr, bounded, sent,
                   calls, failed, fault>>

\* a variant of the search that returns from a full table with the mutex
\* still locked
ReqSend2ReserveLocked(t) ==
    /\ ~fault
    /\ thr[t].pc = "scan"
    /\ LET free == {i \in MemoIdx : open_reqs[i].state = "UNUSED"} IN
       IF free # {}
       THEN /\ open_reqs' = [open_reqs EXCEPT ![Min(free)].state = "WAIT"]
            /\ thr' = [thr EXCEPT ![t].pc = "fill", ![t].memo = Min(free)]
       ELSE /\ thr' = Return(t, 0)
            /\ UNCHANGED open_reqs
    /\ UNCHANGED <<wait_for_response, tdsec, msgids, _pid, engine, init_ret,
                   pdus, max_retransmit, random_factor, elapsed, times, now,
                   last_observe, listeners, app, resend_bufs, observers,
                   observe_memos, lock, next_message_id, msg_queue, intr,
                   bounded, tracked, sent, calls, failed, fault>>

\* the search for an empty slot, under the mutex
ReqSend2Reserve(t) ==
    /\ ~fault
    /\ thr[t].pc = "scan"
    /\ LET free == {i \in MemoIdx : open_reqs[i].state = "UNUSED"} IN
       IF free # {}
       THEN /\ open_reqs' = [open_reqs EXCEPT ![Min(free)].state = "WAIT"]
            /\ thr' = [thr EXCEPT ![t].pc = "fill", ![t].memo = Min(free)]
            /\ UNCHANGED lock
       ELSE /\ lock' = 0
            /\ thr' = Return(t, 0)
            /\ UNCHANGED open_reqs
    /\ UNCHANGED <<wait_for_response, tdsec, msgids, _pid, engine, init_ret,
                   pdus, max_retransmit, random_factor, elapsed, times, now,
                   last_observe, listeners, app, resend_bufs, observers,
                   observe_memos, next_message_id, msg_queue, intr, bounded,
                   tracked, sent, calls, failed, fault>>

\* the endpoint the remote argument points to
RemoteOf(t) ==
    IF thr[t].remote_ptr # 0 THEN observers[thr[t].remote_ptr].ep
    ELSE thr[t].remote

\* the switch on the message type, which fills the memo, and mutex_unlock;
\* with GCOAP_SEND_WAIT_FOR_RESPONSE a call on the engine task gives the
\* slot back and returns 0 before the switch, and before mutex_unlock
ReqSend2Fill(t) ==
    LET i == thr[t].memo
        buf == thr[t].buf
        free == {j \in BufIdx : ~resend_bufs[j].b0}
        m0 == [open_reqs[i] EXCEPT
                 !.resp_handler = thr[t].handler,
                 !.waiting_thread = IF wait_for_response THEN t ELSE @]
    IN
    /\ ~fault
    /\ thr[t].pc = "fill"
    /\ CASE wait_for_response /\ t = _pid ->
              /\ open_reqs' = [open_reqs EXCEPT ![i] =
                                 [m0 EXCEPT !.state = "UNUSED"]]
              /\ thr' = Return(t, 0)
              /\ UNCHANGED resend_bufs
         [] hdr_type(buf) = "CON" /\ free # {} ->
              /\ resend_bufs' = [j \in BufIdx |->
                                   IF j \in free THEN buf ELSE resend_bufs[j]]
              /\ open_reqs' = [open_reqs EXCEPT ![i] =
                                 [m0 EXCEPT !.pdu_buf = Max(free),
                                            !.hdr_buf = ZeroHdr,
                                            !.remote_ep = RemoteOf(t),
                                            !.send_limit = max_retransmit]]
              /\ \E jit \in JitterChoices :
                   thr' = [thr EXCEPT
                             ![t].pc = "check",
                             ![t].timeout =
                                 random_uint32_range(COAP_ACK_TIMEOUT, jit)]
         [] hdr_type(buf) = "CON" /\ free = {} ->
              /\ open_reqs' = [open_reqs EXCEPT ![i] =
                                 [m0 EXCEPT !.pdu_buf = 0,
                                            !.hdr_buf = ZeroHdr,
                                            !.remote_ep = 0,
                                            !.state = "UNUSED"]]
              /\ thr' = [thr EXCEPT ![t].pc = "check"]
              /\ UNCHANGED resend_bufs
         [] hdr_type(buf) = "NON" ->
              /\ open_reqs' = [open_reqs EXCEPT ![i] =
                                 [m0 EXCEPT !.send_limit = GCOAP_SEND_LIMIT_NON,
                                            !.hdr_buf = buf,
                                            !.pdu_buf = -1,
                                            !.remote_ep = 0]]
              /\ thr' = [thr EXCEPT ![t].pc = "check",
                                    ![t].timeout = GCOAP_NON_TIMEOUT]
              /\ UNCHANGED resend_bufs
         [] OTHER ->
              /\ open_reqs' = [open_reqs EXCEPT ![i] =
                                 [m0 EXCEPT !.state = "UNUSED"]]
              /\ thr' = [thr EXCEPT ![t].pc = "check"]
              /\ UNCHANGED resend_bufs
    /\ lock' = IF wait_for_response /\ t = _pid THEN lock ELSE 0
    /\ UNCHANGED <<wait_for_response, tdsec, msgids, _pid, engine, init_ret,
                   pdus, max_retransmit, random_factor, elapsed, times, now,
                   last_observe, listeners, app, observers, observe_memos,
                   next_message_id, msg_queue, intr, bounded, tracked, sent,
                   calls, failed, fault>>

\* if (memo->state == GCOAP_MEMO_UNUSED) return 0; and then
\* size_t res = sock_udp_send(&_sock, buf, len, remote); with a timeout of 0
\* (the switch has found no type to track) the call returns res at once
ReqSend2Send(t) ==
    /\ ~fault
    /\ thr[t].pc = "check"
    /\ IF open_reqs[thr[t].memo].state = "UNUSED"
       THEN /\ thr' = Return(t, 0)
            /\ UNCHANGED <<sent, times, failed>>
       ELSE \E res \in SendResults :
              /\ thr' = IF res = "zero" THEN [thr EXCEPT ![t].pc = "fail"]
                        ELSE IF thr[t].timeout > 0
                        THEN [thr EXCEPT ![t].pc = "arm"]
                        ELSE Return(t, 1)
              /\ sent' = transmit(Cur, thr[t].buf.id, res).sent
              /\ times' = transmit(Cur, thr[t].buf.id, res).times
              /\ failed' = transmit(Cur, thr[t].buf.id, res).failed
    /\ UNCHANGED <<wait_for_response, tdsec, msgids, _pid, engine, init_ret,
                   pdus, max_retransmit, random_factor, elapsed, now,
                   last_observe, listeners, app, open_reqs, resend_bufs,
                   observers, observe_memos, lock, next_message_id, msg_queue,
                   intr, bounded, tracked, calls, fault>>

\* mbox_try_put of the INTR message, xtimer_set_msg and, in the build with
\* GCOAP_SEND_WAIT_FOR_RESPONSE, thread_sleep
ReqSend2Arm(t) ==
    /\ ~fault
    /\ thr[t].pc = "arm"
    /\ \E put \in BOOLEAN :
         IF put
         THEN /\ intr' = TRUE
              /\ open_reqs' = [open_reqs EXCEPT
                                 ![thr[t].memo].response_timer = thr[t].timeout]
              /\ thr' = IF wait_for_response
                        THEN [thr EXCEPT ![t].pc = "asleep"]
                        ELSE Return(t, 1)
         ELSE /\ thr' = [thr EXCEPT ![t].pc = "fail"]
              /\ UNCHANGED <<intr, open_reqs>>
    /\ UNCHANGED <<wait_for_response, tdsec, msgids, _pid, engine, init_ret,
                   pdus, max_retransmit, random_factor, elapsed, times, now,
                   last_observe, listeners, app, resend_bufs, observers,
                   observe_memos, lock, next_message_id, msg_queue, bounded,
                   tracked, sent, calls, failed, fault>>

\* if (!res): clear the resend buffer and release the memo
ReqSend2Fail(t) ==
    LET i == thr[t].memo
        con == hdr_type(thr[t].buf) = "CON"
    IN
    /\ ~fault
    /\ thr[t].pc = "fail"
    /\ IF con /\ open_reqs[i].pdu_buf \notin BufIdx
       THEN \E ub \in NullOutcomes :
              IF ub = "trap"
              THEN /\ fault' = TRUE
                   /\ UNCHANGED <<open_reqs, resend_bufs, thr>>
              ELSE /\ open_reqs' = [open_reqs EXCEPT ![i].state = "UNUSED"]
                   /\ thr' = Return(t, 0)
                   /\ UNCHANGED <<resend_bufs, fault>>
       ELSE /\ resend_bufs' = IF con
                              THEN [resend_bufs EXCEPT
                                      ![open_reqs[i].pdu_buf].b0 = FALSE]
                              ELSE resend_bufs
            /\ open_reqs' = [open_reqs EXCEPT ![i].state = "UNUSED"]
            /\ thr' = Return(t, 0)
            /\ UNCHANGED fault
    /\ UNCHANGED <<wait_for_response, tdsec, msgids, _pid, engine, init_ret,
                   pdus, max_retransmit, random_factor, elapsed, times, now,
                   last_observe, listeners, app, observers, observe_memos,
                   lock, next_message_id, msg_queue, intr, bounded, tracked,
                   sent, calls, failed>>

\* after thread_sleep: res = memo->state; memo->state = GCOAP_MEMO_UNUSED;
ReqSend2Woken(t) ==
    LET i == thr[t].memo
        res == StateCode(open_reqs[i].state)
    IN
    /\ ~fault
    /\ thr[t].pc = "woken"
    /\ open_reqs' = [open_reqs EXCEPT ![i].state = "UNUSED"]
    /\ thr' = IF res = 0 THEN [thr EXCEPT ![t].pc = "fail"] ELSE Return(t, res)
    /\ UNCHANGED <<wait_for_response, tdsec, msgids, _pid, engine, init_ret,
                   pdus, max_retransmit, random_factor, elapsed, times, now,
                   last_observe, listeners, app, resend_bufs, observers,
                   observe_memos, lock, next_message_id, msg_queue, intr,
                   bounded, tracked, sent, calls, failed, fault>>

\* ----------------------------------------------------------------------
\* The engine thread.  It runs from the return of sock_udp_recv in _listen
\* through the handling of the datagram and of one message of its queue and
\* blocks in sock_udp_recv again.

\* the engine task is in its event loop, not in a call to gcoap_req_send2
\* that a handler has made
HandlerReturned == _pid \in DOMAIN thr => thr[_pid].pc = "idle"

\* memo i holds the tracked request
HoldsTracked(i) ==
    /\ tracked # 0
    /\ open_reqs[i].state # "UNUSED"
    /\ MemoHdrOk(Cur, i)
    /\ MemoHdr(Cur, i).id = tracked

\* the response timer of a memo expires: xtimer sends its timeout_msg
Expire(i) ==
    /\ ~fault
    /\ open_reqs[i].response_timer # 0
    /\ open_reqs' = [open_reqs EXCEPT ![i].response_timer = 0]
    /\ msg_queue' = IF engine = "running"
                       /\ Len(msg_queue) < GCOAP_MSG_QUEUE_SIZE
                    THEN Append(msg_queue, i) ELSE msg_queue
    /\ UNCHANGED <<wait_for_response, tdsec, msgids, _pid, engine, init_ret,
                   pdus, max_retransmit, random_factor, times, now,
                   last_observe, listeners, app, resend_bufs, observers,
                   observe_memos, lock, next_message_id, intr, bounded, thr,
                   tracked, sent, calls, failed, fault>>

\* the timer expires, and the time it took is not measured
TimerFire(i) == Expire(i) /\ UNCHANGED elapsed

\* the timer expires after the time it was set to, which is measured for
\* the tracked request
TimerElapse(i) ==
    /\ Expire(i)
    /\ elapsed' = IF HoldsTracked(i)
                  THEN elapsed + open_reqs[i].response_timer ELSE elapsed

\* the outcomes of the NULL dereferences of a run of the engine; there is
\* none to choose while no memo in use and no memo with a queued TIMEOUT
\* message has a NULL pdu_buf
NullReads ==
    IF \/ BadMemos(Cur) # {}
       \/ \E k \in 1..Len(msg_queue) : ~MemoHdrOk(Cur, msg_queue[k])
    THEN NullOutcomes ELSE {"trap"}

\* the engine blocks in the recv of _listen with the tables of S
Blocks(S) ==
    /\ Len(S.calls) <= MaxCalls
    /\ Commit(S)
    /\ bounded' = (gcoap_op_state(S) > 0)

\* _event_loop from msg_try_receive to the recv of the next _listen, which
\* chooses its timeout from gcoap_op_state
EventLoop(S) ==
    \E res \in IF msg_queue = <<>> THEN {"ok"} ELSE SendResults :
    \E jit \in IF msg_queue = <<>> THEN {0} ELSE JitterChoices :
      /\ Blocks(IF S.fault \/ msg_queue = <<>> THEN S
                ELSE event_timeout(S, Head(msg_queue), res, jit))
      /\ msg_queue' = IF S.fault \/ msg_queue = <<>> THEN msg_queue
                      ELSE Tail(msg_queue)

\* _listen: sock_udp_recv returns a datagram of D, which is handled
Listen(D) ==
    /\ ~fault
    /\ engine = "running"
    /\ HandlerReturned
    /\ \E d \in D : \E ub \in NullReads :
         EventLoop(_listen([Cur EXCEPT !.ub = ub], d))
    /\ UNCHANGED <<wait_for_response, tdsec, msgids, _pid, engine, init_ret,
                   max_retransmit, random_factor, elapsed, now, listeners,
                   app, lock, next_message_id, intr, tracked>>

\* _listen returns without a datagram: the recv timed out (GCOAP_RECV_TIMEOUT,
\* chosen when a request is open) or was interrupted by the INTR message
ListenNoData ==
    /\ ~fault
    /\ engine = "running"
    /\ HandlerReturned
    /\ bounded \/ intr
    /\ intr' = FALSE
    /\ \E ub \in NullReads : EventLoop([Cur EXCEPT !.ub = ub])
    /\ UNCHANGED <<wait_for_response, tdsec, msgids, _pid, engine, init_ret,
                   max_retransmit, random_factor, elapsed, now, listeners,
                   app, lock, next_message_id, tracked>>

\* ----------------------------------------------------------------------
\* Notifications, on an application thread

\* gcoap_obs_init for a resource with the message type of the notification
ObsInit(t, max) ==
    /\ ~fault
    /\ thr[t].pc = "idle"
    /\ Len(msgids) < max
    /\ \E l \in 1..Len(listeners) : \E r \in 1..Len(listeners[l]) :
       \E type \in {"CON", "NON"} :
         LET memo == _find_obs_memo_resource(Cur, <<l, r>>) IN
         IF memo = 0
         THEN /\ thr' = Return(t, 0)
              /\ UNCHANGED <<next_message_id, msgids, tracked, last_observe>>
         ELSE /\ thr' = [thr EXCEPT ![t] =
                           [IdleThread EXCEPT
                              !.pc = "obs_send",
                              !.buf = [b0 |-> TRUE, type |-> type,
                                       token |-> observe_memos[memo].token,
                                       id |-> next_message_id],
                              !.resource = <<l, r>>]]
              /\ next_message_id' = atomic_fetch_add(next_message_id)
              /\ msgids' = Append(msgids, next_message_id)
              /\ tracked' = IF tracked = 0 THEN next_message_id ELSE tracked
              /\ last_observe' = generate_value(last_observe, <<l, r>>)
    /\ UNCHANGED <<wait_for_response, tdsec, _pid, engine, init_ret, pdus,
                   max_retransmit, random_factor, elapsed, times, now,
                   listeners, app, open_reqs, resend_bufs, observers,
                   observe_memos, lock, msg_queue, intr, bounded, sent, calls,
                   failed, fault>>

\* gcoap_obs_send up to the test of the memo that _find_obs_memo_resource
\* has found
ObsSendFind(t) ==
    LET memo == _find_obs_memo_resource(Cur, thr[t].resource) IN
    /\ ~fault
    /\ thr[t].pc = "obs_send"
    /\ thr' = IF memo = 0 THEN Return(t, 0)
              ELSE [thr EXCEPT ![t].pc = "obs_use", ![t].obs = memo]
    /\ UNCHANGED <<wait_for_response, tdsec, msgids, _pid, engine, init_ret,
                   pdus, max_retransmit, random_factor, elapsed, times, now,
                   last_observe, listeners, app, open_reqs, resend_bufs,
                   observers, observe_memos, lock, next_message_id, msg_queue,
                   intr, bounded, tracked, sent, calls, failed, fault>>

\* gcoap_obs_send from the switch on the message type, where memo->observer
\* is read: a NON notification goes to the sock, a CON notification enters
\* gcoap_req_send2 with the observer as remote and no handler; a remote
\* that is NULL fails the assertion of gcoap_req_send2, or is read through
ObsSendUse(t) ==
    LET observer == observe_memos[thr[t].obs].observer IN
    /\ ~fault
    /\ thr[t].pc = "obs_use"
    /\ \E ub \in IF observer = 0 THEN NullOutcomes ELSE {"ignored"} :
         IF observer = 0 /\ ub = "trap"
         THEN /\ fault' = TRUE
              /\ UNCHANGED <<thr, lock, sent, times, failed>>
         ELSE IF hdr_type(thr[t].buf) = "NON"
         THEN /\ \E res \in SendResults :
                   /\ thr' = Return(t, IF res = "zero" THEN 0 ELSE 1)
                   /\ sent' = transmit(Cur, thr[t].buf.id, res).sent
                   /\ times' = transmit(Cur, thr[t].buf.id, res).times
                   /\ failed' = transmit(Cur, thr[t].buf.id, res).failed
              /\ UNCHANGED <<lock, fault>>
         ELSE /\ lock = 0
              /\ lock' = t
              /\ thr' = [thr EXCEPT ![t].pc = "scan",
                                    ![t].remote_ptr = observer]
              /\ UNCHANGED <<sent, times, failed, fault>>
    /\ UNCHANGED <<wait_for_response, tdsec, msgids, _pid, engine, init_ret,
                   pdus, max_retransmit, random_factor, elapsed, now,
                   last_observe, listeners, app, open_reqs, resend_bufs,
                   observers, observe_memos, next_message_id, msg_queue, intr,
                   bounded, tracked, calls>>

\* gcoap_obs_send; the engine may run between its two steps
ObsSend(t) == ObsSendFind(t) \/ ObsSendUse(t)

\* the values of xtimer_now_usec() when the engine starts: 0, and one tick
\* before the Observe value wraps around
StartTimes == {0, 2 ^ (24 + GCOAP_OBS_TICK_EXPONENT) - 2 ^ GCOAP_OBS_TICK_EXPONENT}

\* the clock the notification values are taken from runs on by a part of a
\* tick or by a whole tick
ClockTick ==
    /\ ~fault
    /\ \E us \in {2 ^ (GCOAP_OBS_TICK_EXPONENT - 1), 2 ^ GCOAP_OBS_TICK_EXPONENT} :
         /\ \E start \in StartTimes : now + us <= start + MaxRun /\ start <= now
         /\ now' = now + us
    /\ UNCHANGED <<wait_for_response, tdsec, msgids, _pid, engine, init_ret,
                   pdus, max_retransmit, random_factor, elapsed, times,
                   last_observe, listeners, app, open_reqs, resend_bufs,
                   observers, observe_memos, lock, next_message_id, msg_queue,
                   intr, bounded, thr, tracked, sent, calls, failed, fault>>

\* ----------------------------------------------------------------------
\* Listeners, gcoap_find_resource and gcoap_get_resource_list

\* the paths as strings
PathName == <<"/.well-known/core", "/a", "/bb", "/c">>

\* uri 0 stands for a request without Uri-Path (coap_get_uri_path <= 0)
Uris == 0..4

\* the resource arrays an application registers: ordered by path, as
\* gcoap_listener_t asks for; two resources may have the same path
AppResources == [path : 2..4, methods : {{"GET"}, {"PUT"}}]

ResourceArrays ==
    {rs \in UNION {[1..n -> AppResources] : n \in 1..MaxResources} :
        \A i \in 1..(Len(rs) - 1) : rs[i].path <= rs[i + 1].path}

GCOAP_RESOURCE_FOUND == 0
GCOAP_RESOURCE_WRONG_METHOD == -1
GCOAP_RESOURCE_NO_PATH == -2

\* coap_match_path: negative if resource.path sorts before uri, zero on
\* equality, positive if after
coap_match_path(resource, uri) ==
    IF resource.path < uri THEN -1
    ELSE IF resource.path = uri THEN 0
    ELSE 1

\* the for loop of gcoap_find_resource over one listener's resources, from
\* index i, with the value ret has so far
RECURSIVE FindInResources(_, _, _, _, _)
FindInResources(rs, i, uri, method, ret) ==
    IF i > Len(rs) THEN [found |-> 0, ret |-> ret]
    ELSE IF coap_match_path(rs[i], uri) > 0
    THEN FindInResources(rs, i + 1, uri, method, ret)
    ELSE IF coap_match_path(rs[i], uri) < 0
    THEN [found |-> 0, ret |-> ret]
    ELSE IF method \notin rs[i].methods
    THEN FindInResources(rs, i + 1, uri, method, GCOAP_RESOURCE_WRONG_METHOD)
    ELSE [found |-> i, ret |-> GCOAP_RESOURCE_FOUND]

\* the while loop of gcoap_find_resource over the listeners, from listener
\* l; FindNext continues it with the result f of the for loop
RECURSIVE FindInListeners(_, _, _, _, _)
RECURSIVE FindNext(_, _, _, _, _)
FindNext(L, l, uri, method, f) ==
    IF f.found # 0
    THEN [ret |-> GCOAP_RESOURCE_FOUND, handle |-> <<l, f.found>>]
    ELSE FindInListeners(L, l + 1, uri, method, f.ret)

FindInListeners(L, l, uri, method, ret) ==
    IF l > Len(L) THEN [ret |-> ret, handle |-> NoResource]
    ELSE FindNext(L, l, uri, method,
                  FindInResources(L[l], 1, uri, method, ret))

\* gcoap_find_resource: the return value and the resource handle it sets
gcoap_find_resource(L, uri, method) ==
    IF uri = 0
    THEN [ret |-> GCOAP_RESOURCE_NO_PATH, handle |-> NoResource]
    ELSE FindInListeners(L, 1, uri, method, GCOAP_RESOURCE_NO_PATH)

\* gcoap_get_resource_list with a buffer: the link of one resource is
\* written at w.pos
write_link(w, name) ==
    [pos |-> w.pos + (IF w.pos # 0 THEN 1 ELSE 0) + 1 + Len(name) + 1,
     out |-> w.out \o (IF w.pos # 0 THEN "," ELSE "") \o "<" \o name \o ">"]

\* gcoap_get_resource_list without a buffer: the link is counted
count_link(w, name) ==
    [w EXCEPT !.pos = @ + (IF @ # 0 THEN 3 ELSE 2) + Len(name)]

\* the for loop of gcoap_get_resource_list over one listener's resources,
\* from index i; buf is FALSE for a NULL buffer
RECURSIVE ListResources(_, _, _, _, _)
ListResources(rs, i, w, buf, maxlen) ==
    IF i > Len(rs) THEN w
    ELSE IF ~buf
    THEN ListResources(rs, i + 1, count_link(w, PathName[rs[i].path]),
                       buf, maxlen)
    ELSE IF w.pos + Len(PathName[rs[i].path]) + 3 > maxlen THEN w
    ELSE ListResources(rs, i + 1, write_link(w, PathName[rs[i].path]),
                       buf, maxlen)

\* the while loop of gcoap_get_resource_list over the listeners
RECURSIVE ListListeners(_, _, _, _, _)
ListListeners(L, l, w, buf, maxlen) ==
    IF l > Len(L) THEN w
    ELSE ListListeners(L, l + 1, ListResources(L[l], 1, w, buf, maxlen),
                       buf, maxlen)

\* gcoap_get_resource_list: pos, which is returned, and what is written
gcoap_get_resource_list(L, buf, maxlen) ==
    ListListeners(L, 2, [pos |-> 0, out |-> ""], buf, maxlen)

\* gcoap_register_listener: the listener is added to the end of the chain
RegisterListener ==
    /\ ~fault
    /\ Len(listeners) <= MaxListeners
    /\ \E rs \in ResourceArrays : listeners' = Append(listeners, rs)
    /\ app' = NoCall
    /\ UNCHANGED <<wait_for_response, tdsec, msgids, _pid, engine, init_ret,
                   pdus, max_retransmit, random_factor, elapsed, times, now,
                   last_observe, open_reqs, resend_bufs, observers,
                   observe_memos, lock, next_message_id, msg_queue, intr,
                   bounded, thr, tracked, sent, calls, failed, fault>>

\* a call of gcoap_find_resource for a request with a path and a method
FindResource ==
    /\ ~fault
    /\ \E uri \in Uris : \E method \in Methods :
         app' = [op |-> "find", uri |-> uri, method |-> method,
                 ret |-> gcoap_find_resource(listeners, uri, method).ret,
                 handle |-> gcoap_find_resource(listeners, uri, method).handle]
    /\ UNCHANGED <<wait_for_response, tdsec, msgids, _pid, engine, init_ret,
                   pdus, max_retransmit, random_factor, elapsed, times, now,
                   last_observe, listeners, open_reqs, resend_bufs, observers,
                   observe_memos, lock, next_message_id, msg_queue, intr,
                   bounded, thr, tracked, sent, calls, failed, fault>>

\* a call of gcoap_get_resource_list, without a buffer or with one of
\* maxlen bytes
GetResourceList ==
    /\ ~fault
    /\ \E buf \in BOOLEAN : \E maxlen \in IF buf THEN 0..MaxLen ELSE {0} :
         app' = [op |-> "list", buf |-> buf, maxlen |-> maxlen,
                 ret |-> gcoap_get_resource_list(listeners, buf, maxlen).pos,
                 out |-> gcoap_get_resource_list(listeners, buf, maxlen).out]
    /\ UNCHANGED <<wait_for_response, tdsec, msgids, _pid, engine, init_ret,
                   pdus, max_retransmit, random_factor, elapsed, times, now,
                   last_observe, listeners, open_reqs, resend_bufs, observers,
                   observe_memos, lock, next_message_id, msg_queue, intr,
                   bounded, thr, tracked, sent, calls, failed, fault>>

\* ----------------------------------------------------------------------
\* Specifications

\* the state gcoap_init leaves: tables zeroed, mutex free, the engine thread
\* blocked in its first recv
ZeroTables ==
    /\ open_reqs = [i \in MemoIdx |-> ZeroMemo]
    /\ resend_bufs = [j \in BufIdx |-> ZeroHdr]
    /\ observers = [k \in ObsIdx |-> ZeroObserver]
    /\ observe_memos = [m \in ObsMemoIdx |-> ZeroObsMemo]
    /\ lock = 0
    /\ msgids = <<>>
    /\ msg_queue = <<>>
    /\ intr = FALSE
    /\ bounded = FALSE
    /\ thr = [t \in Threads |-> IdleThread]
    /\ tdsec = IdleTdsec
    /\ tracked = 0
    /\ sent = 0
    /\ calls = <<>>
    /\ pdus = <<>>
    /\ failed = FALSE
    /\ fault = FALSE
    /\ app = NoCall
    /\ last_observe = -1
    /\ elapsed = 0
    /\ times = <<>>

\* gcoap_init has been called once and the engine thread has its sock
Started ==
    /\ _pid = EnginePid
    /\ engine = "running"
    /\ init_ret = <<EnginePid>>

InitTables == ZeroTables /\ Started /\ next_message_id = 1

\* a build with or without GCOAP_SEND_WAIT_FOR_RESPONSE, without jitter
Build(wait) ==
    /\ wait_for_response = wait
    /\ max_retransmit = COAP_MAX_RETRANSMIT
    /\ random_factor = <<1, 1>>

\* the engine is used after the application has registered its listener
Init == Build(FALSE) /\ listeners = Listeners /\ now = 0 /\ InitTables

InitSync == Build(TRUE) /\ listeners = Listeners /\ now = 0 /\ InitTables

\* a client has no observers, so that the remote of a datagram is not read;
\* the three response classes are handled alike, as are the unmatched IDs
ClientDatagrams ==
    {d \in ResponseDatagrams :
        /\ d.remote = 1
        /\ d.class # "SUCCESS" => d.type = "ACK" /\ d.token # 0}
    \cup {d \in EmptyDatagrams :
             d.remote = 1 /\ (d.id = 0 => d.type = "ACK")}
    \cup OtherDatagrams

Submit(t) ==
    \/ ReqSend2Reserve(t)
    \/ ReqSend2Fill(t)
    \/ ReqSend2Send(t)
    \/ ReqSend2Arm(t)
    \/ ReqSend2Fail(t)

Engine(D) ==
    \/ \E i \in MemoIdx : TimerFire(i)
    \/ Listen(D)
    \/ ListenNoData

\* requests of application threads against the engine, asynchronous build
Next ==
    \/ \E t \in Threads : ReqInit(t, MaxReqs, ReqTypes) \/ Submit(t)
    \/ Engine(ClientDatagrams)

Spec == Init /\ [][Next]_vars

\* the same with GCOAP_SEND_WAIT_FOR_RESPONSE: the submitter sleeps
NextSync ==
    \/ \E t \in Threads : ReqInit(t, MaxReqs, ReqTypes) \/ Submit(t) \/ ReqSend2Woken(t)
    \/ Engine(ClientDatagrams)

SpecSync == InitSync /\ [][NextSync]_vars

\* requests without any datagram from the network: every request times out,
\* and the table of open requests fills up
NextFull ==
    \/ \E t \in Threads : ReqInit(t, MaxReqsFull, ReqTypes) \/ Submit(t)
    \/ \E i \in MemoIdx : TimerFire(i)
    \/ ListenNoData

SpecFull == Init /\ [][NextFull]_vars

\* one application thread that submits confirmable request after
\* confirmable request, each answered by a piggybacked response before its
\* timer expires, or not yet: slots and resend buffers are used again and
\* again
OneDatagrams ==
    {d \in ResponseDatagrams :
        d.type = "ACK" /\ d.class = "SUCCESS" /\ d.token = 1 /\ d.remote = 1}

NextOne ==
    \/ ReqInit(1, MaxReqsOne, {"CON"}) \/ Submit(1)
    \/ Listen(OneDatagrams)
    \/ ListenNoData

SpecOne == Init /\ [][NextOne]_vars

\* confirmable GET requests with a token that register or deregister an
\* observer of a resource, a plain GET, a GET for an unknown path, and the
\* empty messages that answer notifications
ObsDatagrams ==
    {d \in RequestDatagrams :
        /\ d.type = "CON" /\ d.method = "GET" /\ d.token = 1
        /\ d.remote \in Remotes
        /\ \/ d.path \in {1, 2} /\ d.observe \in {0, 1} /\ d.hres = "ok"
           \/ d.path = 1 /\ d.observe = -1 /\ d.remote = 1
           \/ d.path = 3 /\ d.observe = -1 /\ d.remote = 1 /\ d.hres = "ok"}
    \cup {d \in EmptyDatagrams :
             /\ d.id <= MaxNotifs /\ d.type # "NON"
             /\ d.id = 0 => d.type = "ACK" /\ d.remote = 1}

\* the server side: observe registrations and the notifications of one
\* application thread
NextObs ==
    \/ \E t \in {1} : ObsInit(t, MaxNotifs) \/ ObsSend(t) \/ Submit(t)
    \/ Engine(ObsDatagrams)

SpecObs == Init /\ [][NextObs]_vars

\* one observer that registers for two resources with two tokens and
\* answers the confirmable notifications with RST before a timer expires
RstDatagrams ==
    {d \in RequestDatagrams :
        /\ d.type = "CON" /\ d.method = "GET" /\ d.observe = 0
        /\ d.hres = "ok" /\ d.remote = 1
        /\ (d.path = 1 /\ d.token = 1) \/ (d.path = 2 /\ d.token = 2)}
    \cup {d \in EmptyDatagrams :
             d.type = "RST" /\ d.remote = 1 /\ d.id \in 1..MaxNotifsRst}

NextRst ==
    \/ \E t \in {1} : ObsInit(t, MaxNotifsRst) \/ ObsSend(t) \/ Submit(t)
    \/ Listen(RstDatagrams)
    \/ ListenNoData

SpecRst == Init /\ [][NextRst]_vars

\* requests of every method, path, token and Observe value from the remotes;
\* a NON request is handled as a CON one, and the token and the remote are
\* varied for the requests that register or deregister only
RegDatagrams ==
    {d \in RequestDatagrams :
        /\ d.type \in {"CON", "ACK"}
        /\ (\/ d.type = "ACK" \/ d.hres = "neg" \/ d.method = "PUT"
            \/ d.observe \notin {0, 1} \/ d.path = 3)
           => (d.token = 0 /\ d.remote = 1)}

\* the server side alone: requests, and no notification
NextReg == Listen(RegDatagrams)

SpecReg == Init /\ [][NextReg]_vars

\* an application that registers its listeners and calls
\* gcoap_find_resource and gcoap_get_resource_list on them
InitApp ==
    Build(FALSE) /\ listeners = <<_default_resources>> /\ now = 0
        /\ InitTables

NextApp == RegisterListener \/ FindResource \/ GetResourceList

SpecApp == InitApp /\ [][NextApp]_vars

\* a remote registers as observer of /.well-known/core and deregisters
TickDatagrams ==
    {d \in RequestDatagrams :
        /\ d.type = "CON" /\ d.method = "GET" /\ d.token = 1 /\ d.remote = 1
        /\ d.path = 1 /\ d.observe \in {0, 1} /\ d.hres = "ok"}

InitTick ==
    Build(FALSE) /\ listeners = Listeners /\ now \in StartTimes
        /\ InitTables

\* a server that sends notifications to its observer while the clock runs
NextTick ==
    \/ ClockTick
    \/ \E t \in {1} : ObsInit(t, MaxNotifsTick) \/ ObsSend(t) \/ Submit(t)
    \/ Engine(TickDatagrams)

SpecTick == InitTick /\ [][NextTick]_vars

\* a build with the default number of retransmissions, without jitter or
\* with COAP_RANDOM_FACTOR
InitTime ==
    /\ wait_for_response = FALSE
    /\ max_retransmit = COAP_MAX_RETRANSMIT_DEFAULT
    /\ random_factor \in {<<1, 1>>, COAP_RANDOM_FACTOR}
    /\ listeners = Listeners /\ now = 0 /\ InitTables

\* requests of one application thread to remotes that never reply: every
\* response timer runs out
NextTime ==
    \/ \E t \in {1} : ReqInit(t, MaxReqsTime, {"CON", "NON"}) \/ Submit(t)
    \/ \E i \in MemoIdx : TimerElapse(i)
    \/ ListenNoData

SpecTime == InitTime /\ [][NextTime]_vars

\* ----------------------------------------------------------------------
\* Properties

\* the tracked request is outstanding: gcoap_req_send2 has returned non-zero
\* for it and its handler has not been called
Outstanding ==
    /\ tracked # 0
    /\ calls = <<>>
    /\ \E t \in Threads : thr[t].pc = "idle" /\ thr[t].res = 1

\* C1: a slot is reserved (UNUSED -> WAIT) only when it is UNUSED at that
\* moment, and no two requests that are both outstanding occupy the same
\* slot: the slot of an outstanding request is not reserved for another one
C1_SlotExclusive ==
    [][\A i \in MemoIdx :
          open_reqs[i].state # "WAIT" /\ open_reqs'[i].state = "WAIT"
              => /\ open_reqs[i].state = "UNUSED"
                 /\ ~(Outstanding /\ open_reqs[i].resp_handler = tracked)]_vars

\* the memo the engine takes the next TIMEOUT message for holds the tracked
\* request as a confirmable one: its pdu_buf is the resend buffer with the
\* request's message ID
TimeoutOfTracked(i) ==
    /\ tracked # 0
    /\ msg_queue # <<>>
    /\ Head(msg_queue) = i
    /\ open_reqs[i].send_limit # GCOAP_SEND_LIMIT_NON
    /\ open_reqs[i].pdu_buf \in BufIdx
    /\ resend_bufs[open_reqs[i].pdu_buf].id = tracked

\* C2: a confirmable request that gets no reply, every sock send succeeding,
\* is never transmitted more than COAP_MAX_RETRANSMIT + 1 times, and the
\* TIMEOUT message that expires it (handler called with TIMEOUT) finds
\* send_limit 0 after exactly COAP_MAX_RETRANSMIT + 1 transmissions and
\* leaves the memo UNUSED
C2_Retransmit ==
    [][/\ (~failed' /\ "RESP" \notin {calls'[k] : k \in 1..Len(calls')})
           => sent' <= COAP_MAX_RETRANSMIT + 1
       /\ \A i \in MemoIdx :
            (/\ TimeoutOfTracked(i)
             /\ calls = <<>> /\ calls' = <<"TIMEOUT">>
             /\ ~failed')
            => /\ sent' = COAP_MAX_RETRANSMIT + 1
               /\ open_reqs[i].send_limit = 0
               /\ open_reqs'[i].state = "UNUSED"]_vars

\* C3: the response handler of a request is not called a second time,
\* whatever the order of responses, duplicates and timeout messages
C3_HandlerOnce == Len(calls) <= 1

\* C4: with GCOAP_SEND_WAIT_FOR_RESPONSE a submitter asleep in
\* gcoap_req_send2 has its one wake-up still ahead: its memo is in state
\* WAIT, so that the first response or the terminal timeout wakes it; a
\* response or timeout handled before thread_sleep does not leave it asleep
C4_WakeupAhead ==
    \A t \in Threads :
        thr[t].pc = "asleep" => open_reqs[thr[t].memo].state = "WAIT"

\* the open request a response with the token of d belongs to: the first
\* memo in use whose stored request header carries that token (0: none)
OpenRequestOf(d) ==
    MinOrNone({i \in MemoIdx :
                 /\ open_reqs[i].state # "UNUSED"
                 /\ MemoHdrOk(Cur, i)
                 /\ hdr_token(MemoHdr(Cur, i)) = d.token})

\* what the handling of response d leaves of the request in memo i: timer
\* cancelled, handler called with RESP, memo UNUSED, resend buffer of a
\* confirmable request free
Responded(P, i) ==
    /\ ~P.fault
    /\ P.open_reqs[i].response_timer = 0
    /\ P.open_reqs[i].state = "UNUSED"
    /\ open_reqs[i].resp_handler = tracked /\ tracked # 0
           => P.calls = Append(calls, "RESP")
    /\ open_reqs[i].send_limit >= 0
           => ~P.resend_bufs[open_reqs[i].pdu_buf].b0

\* C5: without GCOAP_SEND_WAIT_FOR_RESPONSE, a response of type NON or ACK
\* whose token matches an open request cancels the timer, calls the handler
\* with RESP and leaves the memo UNUSED and a confirmable request's resend
\* buffer free, whatever a read through a NULL pdu_buf does on the way
C5_ResponseHandled ==
    ~fault =>
    \A d \in ResponseDatagrams : \A ub \in NullOutcomes :
        d.type \in {"NON", "ACK"} /\ OpenRequestOf(d) # 0
            => Responded(_listen([Cur EXCEPT !.ub = ub], d), OpenRequestOf(d))

\* the open confirmable requests with the message ID of d that wait for
\* their retransmission timer
OpenConfirmables(d) ==
    {i \in MemoIdx : /\ open_reqs[i].state # "UNUSED"
                     /\ open_reqs[i].response_timer # 0
                     /\ open_reqs[i].send_limit >= 0
                     /\ open_reqs[i].pdu_buf \in BufIdx
                     /\ resend_bufs[open_reqs[i].pdu_buf].b0
                     /\ resend_bufs[open_reqs[i].pdu_buf].id = d.id}

\* C6: an empty ACK or RST whose message ID matches an open confirmable
\* request cancels the retransmission timer of that request and returns its
\* memo to the pool, so that no later TIMEOUT retransmits it
C6_EmptyAckFrees ==
    ~fault =>
    \A d \in EmptyDatagrams : \A ub \in NullOutcomes :
        d.type \in {"ACK", "RST"} /\ Cardinality(OpenConfirmables(d)) = 1
            => \A i \in OpenConfirmables(d) :
                 /\ _listen([Cur EXCEPT !.ub = ub], d).open_reqs[i]
                                                     .response_timer = 0
                 /\ _listen([Cur EXCEPT !.ub = ub], d).open_reqs[i].state
                                                     = "UNUSED"

\* the confirmable notifications in flight with the message ID of d that
\* were sent to the remote of d
NotificationsOf(d) ==
    {i \in MemoIdx : /\ open_reqs[i].state = "WAIT"
                     /\ open_reqs[i].response_timer # 0
                     /\ open_reqs[i].send_limit >= 0
                     /\ open_reqs[i].pdu_buf \in BufIdx
                     /\ resend_bufs[open_reqs[i].pdu_buf].b0
                     /\ resend_bufs[open_reqs[i].pdu_buf].id = d.id
                     /\ open_reqs[i].remote_ep = d.remote}

\* the observe memos of the observer at remote with a token
MemosOf(remote, token) ==
    {m \in ObsMemoIdx :
        /\ observe_memos[m].observer # 0
        /\ observers[observe_memos[m].observer].family # "AF_UNSPEC"
        /\ observers[observe_memos[m].observer].ep = remote
        /\ observe_memos[m].token = token}

\* after P the observe memo m is deleted, and its observer is free exactly
\* if no other observe memo referred to it
Deregistered(P, m) ==
    /\ ~P.fault
    /\ P.observe_memos[m].observer = 0
    /\ P.observers[observe_memos[m].observer].family = "AF_UNSPEC"
         <=> ~\E n \in ObsMemoIdx \ {m} :
                observe_memos[n].observer = observe_memos[m].observer

\* C7: an RST from an observer that carries the message ID of a confirmable
\* notification sent to it deletes the observe memo of (observer, token) and
\* frees the observer slot if and only if no other observe memo refers to
\* that observer
C7_RstDeregisters ==
    ~fault =>
    \A d \in EmptyDatagrams : \A ub \in NullOutcomes :
        d.type = "RST" =>
        \A i \in NotificationsOf(d) :
        \A m \in MemosOf(d.remote,
                         hdr_token(resend_bufs[open_reqs[i].pdu_buf])) :
            Deregistered(_listen([Cur EXCEPT !.ub = ub], d), m)

\* C8: a gcoap_req_send2 that finds every open-request slot in use returns 0
\* and leaves the mutex unlocked; it sends no datagram, arms no timer, puts
\* no message in the mbox and leaves every slot table as it was
C8_FullTable ==
    [][\A t \in Threads :
          (/\ thr[t].pc = "scan"
           /\ thr'[t] # thr[t]
           /\ \A i \in MemoIdx : open_reqs[i].state # "UNUSED")
          => /\ thr'[t].pc = "idle"
             /\ thr[t].buf.id = tracked => thr'[t].res = 0
             /\ lock' = 0
             /\ sent' = sent /\ failed' = failed /\ intr' = intr
             /\ msg_queue' = msg_queue
             /\ open_reqs' = open_reqs
             /\ resend_bufs' = resend_bufs
             /\ observers' = observers
             /\ observe_memos' = observe_memos]_vars

\* C8: the tracked request was turned away by a full table: the call has
\* returned 0, no memo was ever given its handler, nothing was sent, and all
\* slots are in use
C8_Witness ==
    /\ tracked # 0
    /\ \E t \in Threads : thr[t].pc = "idle" /\ thr[t].res = 0
    /\ \A i \in MemoIdx : /\ open_reqs[i].state # "UNUSED"
                           /\ open_reqs[i].resp_handler # tracked
    /\ sent = 0
    /\ lock = 0

\* C9: every open_reqs entry that is not UNUSED is either non-confirmable,
\* send_limit GCOAP_SEND_LIMIT_NON with the request header in its inline
\* buffer, or confirmable, send_limit in 0..COAP_MAX_RETRANSMIT with pdu_buf
\* pointing to a resend buffer that holds the request
C9_MemoShape ==
    \A i \in MemoIdx :
        open_reqs[i].state # "UNUSED" =>
            \/ /\ open_reqs[i].send_limit = GCOAP_SEND_LIMIT_NON
               /\ open_reqs[i].hdr_buf.b0
            \/ /\ open_reqs[i].send_limit \in 0..COAP_MAX_RETRANSMIT
               /\ open_reqs[i].pdu_buf \in BufIdx
               /\ resend_bufs[open_reqs[i].pdu_buf].b0

InUseMemos == {m \in ObsMemoIdx : observe_memos[m].observer # 0}

\* C11: no two observe memos in use have the same (observer, token,
\* token_len), and no two have the same resource
C11_MemosDistinct ==
    \A m \in InUseMemos : \A n \in InUseMemos \ {m} :
        /\ <<observe_memos[m].observer, observe_memos[m].token>>
               # <<observe_memos[n].observer, observe_memos[n].token>>
        /\ observe_memos[m].resource # observe_memos[n].resource

\* C11: one observer holds two registrations, for two resources with two
\* tokens
C11_Witness ==
    \E m \in InUseMemos : \E n \in InUseMemos \ {m} :
        /\ observe_memos[m].observer = observe_memos[n].observer
        /\ observe_memos[m].token # observe_memos[n].token
        /\ observe_memos[m].resource # observe_memos[n].resource

\* the number of observer slots and of observe memos in use in S
InUseCounts(S) ==
    <<Cardinality({k \in ObsIdx : S.observers[k].family # "AF_UNSPEC"}),
      Cardinality({m \in ObsMemoIdx : S.observe_memos[m].observer # 0})>>

\* the requests the engine hands to _handle_req
HandledRequests == {d \in RequestDatagrams : d.type \in {"CON", "NON"}}

\* C12: a register request (Observe = 0) that is accepted, the Observe
\* option kept for the handler, followed by a deregister request
\* (Observe = 1) of the same remote with the same token leaves as many
\* observers and as many observe memos in use as there were before
C12_RegisterDeregister ==
    ~fault =>
    \A d \in HandledRequests :
        d.observe = 0 /\ _listen(Cur, d).replies.observe
            => InUseCounts(_listen(_listen(Cur, d), [d EXCEPT !.observe = 1]))
                   = InUseCounts(Cur)

\* the resource _handle_req finds for request d
ResourceOf(d) == _find_resource(listeners, d.path, d.method)

\* observe memo m belongs to the remote and the token of request d
MemoOfSender(m, d) ==
    /\ observers[observe_memos[m].observer].ep = d.remote
    /\ observe_memos[m].token = d.token

\* the handling P of register request d has recorded nothing: the observers
\* and the observe memos are as before, and the resource handler is called
\* on a packet whose Observe option is cleared
Refused(P, d) ==
    /\ P.observers = observers
    /\ P.observe_memos = observe_memos
    /\ ~P.replies.observe
    /\ P.replies.handler = ResourceOf(d)

\* C13: while a resource has an observe memo in use, a register request
\* (Observe = 0) for it from another (remote, token) is refused: the
\* observers and the observe memos stay as they are, and the Observe option
\* is cleared before the resource handler runs
C13_SecondRegisterRefused ==
    ~fault =>
    \A d \in HandledRequests : \A m \in InUseMemos :
        (/\ d.observe = 0
         /\ ResourceOf(d) # NoResource
         /\ observe_memos[m].resource = ResourceOf(d)
         /\ ~MemoOfSender(m, d))
        => Refused(_listen(Cur, d), d)

\* request d asks for a registration that needs a new observe memo, and
\* there is no room for it: no memo is free, or the remote is not an
\* observer yet and no observer slot is free
NoRoomFor(d) ==
    /\ d.observe = 0
    /\ ResourceOf(d) # NoResource
    /\ _find_obs_memo(Cur, d.remote, d.token).memo = 0
    /\ \/ InUseMemos = ObsMemoIdx
       \/ /\ _find_observer(Cur, d.remote).observer = 0
          /\ \A k \in ObsIdx : observers[k].family # "AF_UNSPEC"

\* C14: a register request (Observe = 0) that cannot be recorded because
\* no observe memo is free, or because the remote is a new observer and no
\* observer slot is free, has its Observe option cleared and leaves the
\* observers and the observe memos exactly as they were
C14_NoRoomRefused ==
    ~fault =>
    \A d \in HandledRequests : NoRoomFor(d) => Refused(_listen(Cur, d), d)

\* C14: every observer slot is in use while an observe memo is free, and a
\* register request of a remote that is no observer is turned away
C14_Witness ==
    /\ ~fault
    /\ InUseMemos # ObsMemoIdx
    /\ \E d \in HandledRequests :
         /\ NoRoomFor(d)
         /\ _find_obs_memo_resource(Cur, ResourceOf(d)) = 0
         /\ Refused(_listen(Cur, d), d)

\* a register request is turned away from a full table of observe memos
\* while an observer slot is free
C14_WitnessMemos ==
    /\ ~fault
    /\ InUseMemos = ObsMemoIdx
    /\ \E k \in ObsIdx : observers[k].family = "AF_UNSPEC"
    /\ \E d \in HandledRequests :
         /\ NoRoomFor(d)
         /\ _find_observer(Cur, d.remote).observer = 0
         /\ _find_obs_memo_resource(Cur, ResourceOf(d)) = 0
         /\ Refused(_listen(Cur, d), d)

\* C15: for a request with an Observe option that is neither 0 nor 1 the
\* engine calls no sock_udp_send (the value _handle_req returns as a size_t
\* does not pass the test pdu_len > 0 of _listen), does not call the
\* resource handler and leaves the observers and the observe memos alone
C15_BogusObserveSilent ==
    ~fault =>
    \A d \in HandledRequests :
        d.observe \notin {-1, 0, 1}
        => /\ _listen(Cur, d).replies.code = "none"
           /\ _listen(Cur, d).replies.handler = NoResource
           /\ _listen(Cur, d).observers = observers
           /\ _listen(Cur, d).observe_memos = observe_memos

\* no resource of any listener has the path of request d
NoPathMatch(d) ==
    \A l \in 1..Len(listeners) : \A r \in 1..Len(listeners[l]) :
        listeners[l][r].path # d.path

\* the handling P of request d has sent 4.04 to the remote of d and nothing
\* else: no resource handler is called, the observers and the observe memos
\* are as before
NotFound(P, d) ==
    /\ P.replies.code = "4.04"
    /\ P.replies.remote = d.remote
    /\ P.replies.handler = NoResource
    /\ P.observers = observers
    /\ P.observe_memos = observe_memos

\* C16: a NON or CON request whose path matches no registered resource is
\* answered with 4.04 Not Found; no resource handler is called and the
\* observers and the observe memos stay as they are, also when the request
\* carries Observe = 0 or Observe = 1
C16_NotFound ==
    ~fault =>
    \A d \in HandledRequests : NoPathMatch(d) => NotFound(_listen(Cur, d), d)

\* C16: an observer with a registration sends a deregister request for a
\* path without a resource, with the token of its registration, and gets
\* 4.04 while a memo and an observer slot are still free
C16_Witness ==
    /\ ~fault
    /\ InUseMemos # ObsMemoIdx
    /\ \E k \in ObsIdx : observers[k].family = "AF_UNSPEC"
    /\ \E d \in HandledRequests : \E m \in InUseMemos :
         /\ NoPathMatch(d)
         /\ d.observe = 1
         /\ MemoOfSender(m, d)
         /\ NotFound(_listen(Cur, d), d)

\* some resource has the path of request d, and no resource with that path
\* allows the method of d
MethodMismatch(d) ==
    /\ ~NoPathMatch(d)
    /\ \A l \in 1..Len(listeners) : \A r \in 1..Len(listeners[l]) :
          listeners[l][r].path = d.path => d.method \notin listeners[l][r].methods

\* C17: a request whose path is that of a registered resource while its
\* method is allowed by no resource with that path is answered with 4.05
\* Method Not Allowed
C17_MethodNotAllowed ==
    ~fault =>
    \A d \in HandledRequests :
        MethodMismatch(d) => _listen(Cur, d).replies.code = "4.05"

\* the resources of the listeners with a path, and those of them that
\* allow a method
WithPath(uri) ==
    {h \in (1..Len(listeners)) \X (1..MaxResources) :
        /\ h[2] <= Len(listeners[h[1]])
        /\ listeners[h[1]][h[2]].path = uri}

Allowing(uri, method) ==
    {h \in WithPath(uri) : method \in listeners[h[1]][h[2]].methods}

\* C18: with resource arrays in ascending order of path, a call of
\* gcoap_find_resource returns FOUND, the handle set to a resource with the
\* path of the request that allows its method, exactly when such a resource
\* is registered; WRONG_METHOD exactly when resources with the path are
\* registered and none allows the method; and NO_PATH otherwise, as for a
\* request without Uri-Path
C18_FindResource ==
    app.op = "find" =>
        /\ app.ret = GCOAP_RESOURCE_FOUND
              <=> (app.uri # 0 /\ Allowing(app.uri, app.method) # {})
        /\ app.ret = GCOAP_RESOURCE_FOUND
              => app.handle \in Allowing(app.uri, app.method)
        /\ app.ret = GCOAP_RESOURCE_WRONG_METHOD
              <=> (/\ app.uri # 0
                   /\ WithPath(app.uri) # {}
                   /\ Allowing(app.uri, app.method) = {})
        /\ app.ret \in {GCOAP_RESOURCE_FOUND, GCOAP_RESOURCE_WRONG_METHOD,
                        GCOAP_RESOURCE_NO_PATH}

\* the links of the resources rs[i..], each preceded by a comma
RECURSIVE LinksFrom(_, _)
LinksFrom(rs, i) ==
    IF i > Len(rs) THEN ""
    ELSE ",<" \o PathName[rs[i].path] \o ">" \o LinksFrom(rs, i + 1)

\* the links of the resources of the listeners L[l..], each preceded by a
\* comma
RECURSIVE LinksOf(_, _)
LinksOf(L, l) ==
    IF l > Len(L) THEN "" ELSE LinksFrom(L[l], 1) \o LinksOf(L, l + 1)

\* the links of the resources from L[l][i] on, separated by commas
RECURSIVE DropComma(_, _, _)
DropComma(L, l, i) ==
    IF l > Len(L) THEN ""
    ELSE IF i > Len(L[l]) THEN DropComma(L, l + 1, 1)
    ELSE "<" \o PathName[L[l][i].path] \o ">"
             \o LinksFrom(L[l], i + 1) \o LinksOf(L, l + 1)

\* the listing <path>,<path>,... of the resources of all listeners but the
\* head listener, in the order of registration and of the arrays
Listing == DropComma(listeners, 2, 1)

\* C19: with a buffer large enough for the whole listing,
\* gcoap_get_resource_list writes exactly the links <path> of all resources
\* of all registered listeners except the head listener, in registration
\* and array order, separated by single commas, and returns their length;
\* /.well-known/core is not listed
C19_ResourceList ==
    (app.op = "list" /\ app.buf /\ app.maxlen >= Len(Listing))
        => app.out = Listing /\ app.ret = Len(Listing)

\* C20: the two passes of gcoap_get_resource_list agree for every chain of
\* listeners, one with a single resource included: a call with a buffer
\* whose maxlen is the number n that the call without a buffer returns
\* writes exactly n bytes and returns n
C20_TwoPass ==
    (/\ app.op = "list"
     /\ app.buf
     /\ app.maxlen = gcoap_get_resource_list(listeners, FALSE, 0).pos)
        => app.ret = app.maxlen /\ Len(app.out) = app.maxlen

\* w follows v in the order of the Observe values: the step from v to w
\* modulo 2^24 is between 1 and 2^23 - 1
StrictlyAfter(v, w) == ((w - v) % 2 ^ 24) \in 1..(2 ^ 23 - 1)

\* C21: for one observe registration the Observe value of every
\* notification built with gcoap_obs_init is strictly greater, modulo 2^24,
\* than the value generated before it (that of the registration response or
\* of the notification before), also when both are generated within one
\* tick of 2^GCOAP_OBS_TICK_EXPONENT microseconds
C21_ObserveIncreasing ==
    [][\A t \in Threads :
          (/\ thr[t].pc = "idle"
           /\ thr'[t].pc = "obs_send"
           /\ thr'[t].resource = ObservedResource
           /\ last_observe # -1)
          => StrictlyAfter(last_observe, last_observe')]_vars

\* the sequence s is the beginning of the sequence t
IsPrefix(s, t) ==
    Len(s) <= Len(t) /\ \A k \in 1..Len(s) : s[k] = t[k]

\* the build of the retransmission test: COAP_ACK_TIMEOUT 2 s,
\* COAP_MAX_RETRANSMIT 4, no jitter, and every sock_udp_send transmits
TimedBuild ==
    /\ COAP_ACK_TIMEOUT = 2
    /\ max_retransmit = 4
    /\ random_factor = <<1, 1>>
    /\ ~failed

\* C22: with ACK_TIMEOUT 2 s, MAX_RETRANSMIT 4 and no jitter, the
\* transmissions of a confirmable request to a silent remote happen 0, 2, 4,
\* 8 and 16 seconds after the submission
C22_TransmissionTimes ==
    TimedBuild => IsPrefix(times, <<0, 2, 4, 8, 16>>)

\* C22, amended: the transmissions happen 0, 2, 6, 14 and 30 seconds after
\* the submission, each wait being twice the one before (2, 4, 8, 16 s)
C22_TransmissionTimesDoubling ==
    TimedBuild => IsPrefix(times, <<0, 2, 6, 14, 30>>)

\* C22: a confirmable request has been transmitted five times, the last
\* time 30 seconds after its submission, and has timed out
C22_Witness ==
    /\ TimedBuild
    /\ times = <<0, 2, 6, 14, 30>>
    /\ calls = <<"TIMEOUT">>

\* the waits random_uint32_range may choose for the timeout t of the build
Waits(t) == t..((t * random_factor[1]) \div random_factor[2])

\* C23: the response timer of a confirmable request that has been
\* transmitted k + 1 times (k retransmissions, k = 0 at submission) is set
\* to COAP_ACK_TIMEOUT * 2^k seconds in a build without jitter, twice the
\* wait before, and to a wait between that and COAP_RANDOM_FACTOR times
\* that in a build with jitter
C23_Waits ==
    ~failed =>
    \A i \in MemoIdx :
        (/\ HoldsTracked(i)
         /\ open_reqs[i].send_limit # GCOAP_SEND_LIMIT_NON
         /\ open_reqs[i].response_timer # 0)
        => /\ times # <<>>
           /\ Len(times) <= max_retransmit + 1
           /\ open_reqs[i].response_timer
                  \in Waits(COAP_ACK_TIMEOUT * 2 ^ (Len(times) - 1))

\* C23: in a build with jitter the timer of the last retransmission is set
\* to the longest wait, COAP_ACK_TIMEOUT * 2^COAP_MAX_RETRANSMIT * 1.5
C23_Witness ==
    /\ ~failed
    /\ random_factor = COAP_RANDOM_FACTOR
    /\ \E i \in MemoIdx :
         /\ HoldsTracked(i)
         /\ open_reqs[i].send_limit = 0
         /\ Len(times) = max_retransmit + 1
         /\ open_reqs[i].response_timer = 48

\* C24: when a request that has a response handler times out for good, the
\* handler is called with state TIMEOUT and a null PDU
C24_TimeoutNullPdu ==
    \A k \in 1..Len(calls) : calls[k] = "TIMEOUT" => pdus[k] = "null"

\* C24 (amended): the handler is called with state TIMEOUT and a pdu that is
\* not null: a coap_pkt_t whose hdr points to the header of the request
C24_TimeoutRequestPdu ==
    \A k \in 1..Len(calls) : calls[k] = "TIMEOUT" => pdus[k] = "req"

C24_Witness ==
    /\ calls # <<>>
    /\ calls[Len(calls)] = "TIMEOUT"
    /\ pdus[Len(pdus)] = "req"

\* ----------------------------------------------------------------------
\* Startup

\* gcoap_init, with the start of _event_loop: the engine thread has a
\* higher priority than the caller and runs until it blocks in _listen or
\* returns; sock is what sock_udp_create returns
GcoapInit(sock, id) ==
    /\ Len(init_ret) < MaxInits
    /\ IF _pid # KERNEL_PID_UNDEF
       THEN /\ init_ret' = Append(init_ret, -EEXIST)
            /\ UNCHANGED <<_pid, engine, open_reqs, resend_bufs, observers,
                           observe_memos, lock, next_message_id>>
       ELSE /\ _pid' = EnginePid
            /\ engine' = IF sock < 0 THEN "exited" ELSE "running"
            /\ lock' = 0
            /\ open_reqs' = [i \in MemoIdx |-> ZeroMemo]
            /\ observers' = [k \in ObsIdx |-> ZeroObserver]
            /\ observe_memos' = [m \in ObsMemoIdx |-> ZeroObsMemo]
            /\ resend_bufs' = [j \in BufIdx |-> ZeroHdr]
            /\ next_message_id' = id
            /\ init_ret' = Append(init_ret, _pid')
    /\ UNCHANGED <<wait_for_response, tdsec, msgids, max_retransmit,
                   random_factor, elapsed, times, now, last_observe,
                   listeners, app, msg_queue, intr, bounded, thr, tracked,
                   sent, calls, pdus, failed, fault>>

\* before gcoap_init: nothing runs, and the tables are zero (static storage)
InitBoot ==
    /\ Build(FALSE)
    /\ listeners = Listeners
    /\ now = 0
    /\ ZeroTables
    /\ _pid = KERNEL_PID_UNDEF
    /\ engine = "none"
    /\ init_ret = <<>>
    /\ next_message_id = 0

\* the application calls gcoap_init before it sends requests; the engine
\* thread takes its steps while it runs
NextBoot ==
    \/ \E sock \in {-1, 0}, id \in 1..2 : GcoapInit(sock, id)
    \/ \E t \in {1} : ReqInit(t, MaxReqs, ReqTypes) \/ Submit(t)
    \/ Engine(ClientDatagrams)

SpecBoot == InitBoot /\ [][NextBoot]_vars

\* a valid thread id, as thread_create returns one
ValidPid(p) == p > KERNEL_PID_UNDEF

\* C25: when sock_udp_create fails in the engine's startup, the first
\* gcoap_init does not return a valid thread id as if the engine ran
C25_SockFailureReported ==
    (engine = "exited" /\ init_ret # <<>>) => ~ValidPid(init_ret[1])

\* ----------------------------------------------------------------------
\* Message IDs

\* random_uint32() of gcoap_init, as far as the message ID shows it: a low
\* value, and values from which the counter passes 0xFFFF
StartIds == {1, 2 ^ 16 - 2}

InitIds ==
    /\ Build(FALSE)
    /\ listeners = Listeners
    /\ now = 0
    /\ ZeroTables
    /\ Started
    /\ next_message_id \in StartIds

\* one thread builds non-confirmable requests, another notifications of
\* either type, an observer registers; no response timer runs out
NextIds ==
    \/ \E t \in {1} : ReqInit(t, MaxIds, {"NON"}) \/ Submit(t)
    \/ \E t \in {2} : ObsInit(t, MaxIds) \/ ObsSend(t) \/ Submit(t)
    \/ Listen(TickDatagrams)

SpecIds == InitIds /\ [][NextIds]_vars

\* C26: the message IDs of requests and notifications handed out one after
\* the other (fewer than 2^16 of them) are pairwise distinct, and each is
\* the one before plus 1 modulo 2^16
C26_MessageIds ==
    /\ Len(msgids) < 2 ^ 16
    /\ \A j, k \in 1..Len(msgids) : j # k => msgids[j] # msgids[k]
    /\ \A k \in 2..Len(msgids) : msgids[k] = (msgids[k - 1] + 1) % 2 ^ 16
    /\ \A t \in Threads :
         thr[t].pc \in {"scan", "obs_send"} =>
           \E k \in 1..Len(msgids) : thr[t].buf.id = msgids[k]

\* C26: a request and a notification were built on either side of the wrap
C26_Witness ==
    /\ Len(msgids) = MaxIds
    /\ msgids[2] = 2 ^ 16 - 1
    /\ msgids[3] = 0
    /\ \E t \in Threads : thr[t].pc = "obs_send" /\ thr[t].buf.id = 0

\* ----------------------------------------------------------------------
\* Progress

\* datagrams that answer no request: one coap_parse rejects, one of a
\* reserved code class, and responses whose token no request has
LiveDatagrams ==
    OtherDatagrams
    \cup {d \in ResponseDatagrams :
             d.remote = 1 /\ d.token = 0 /\ d.class = "SUCCESS"}

NextLive ==
    \/ \E t \in Threads : ReqInit(t, MaxReqsLive, {"CON", "NON"}) \/ Submit(t)
    \/ Engine(LiveDatagrams)

\* the engine thread is scheduled (its recv returns when it has a timeout or
\* an INTR message is in the mbox), every armed timer runs out, and every
\* application thread goes on with the call it is in; no datagram need come
Fairness ==
    /\ WF_vars(ListenNoData)
    /\ \A i \in MemoIdx : WF_vars(TimerFire(i))
    /\ \A t \in Threads : WF_vars(Submit(t))

SpecLive == Init /\ [][NextLive]_vars /\ Fairness

\* C27: every request memo that is in state WAIT is UNUSED again later
C27_WaitEnds ==
    \A i \in MemoIdx :
        (open_reqs[i].state = "WAIT") ~> (open_reqs[i].state = "UNUSED")

\* ----------------------------------------------------------------------
\* Notifications that are never acknowledged

\* remote 1 registers for two resources with two tokens and remote 2 for
\* one of them; none of them answers a notification
ExpDatagrams ==
    {d \in RequestDatagrams :
        /\ d.type = "CON" /\ d.method = "GET" /\ d.observe = 0
        /\ d.hres = "ok"
        /\ \/ d.remote = 1 /\ d.path = 1 /\ d.token = 1
           \/ d.remote = 1 /\ d.path = 2 /\ d.token = 2
           \/ d.remote = 2 /\ d.path = 2 /\ d.token = 1}

NextExp ==
    \/ \E t \in {1} : ObsInit(t, MaxNotifs) \/ ObsSend(t) \/ Submit(t)
    \/ Engine(ExpDatagrams)

SpecExp == Init /\ [][NextExp]_vars

\* the memos of confirmable notifications (they have no handler) that wait
\* with their last retransmission made
LastWaits ==
    {i \in MemoIdx : /\ open_reqs[i].state = "WAIT"
                     /\ open_reqs[i].resp_handler = 0
                     /\ open_reqs[i].send_limit = 0
                     /\ open_reqs[i].pdu_buf \in BufIdx
                     /\ resend_bufs[open_reqs[i].pdu_buf].b0}

\* after P the memo i and its resend buffer are released and the observe
\* memos of its remote and token are deregistered
Released(P, i) ==
    /\ ~P.fault
    /\ P.open_reqs[i].state = "UNUSED"
    /\ ~P.resend_bufs[open_reqs[i].pdu_buf].b0
    /\ \A m \in MemosOf(open_reqs[i].remote_ep,
                         hdr_token(resend_bufs[open_reqs[i].pdu_buf])) :
          Deregistered(P, m)

FindDatagrams ==
    {d \in RequestDatagrams :
        /\ d.type = "CON" /\ d.token = 0 /\ d.remote = 1
        /\ d.observe = -1 /\ d.hres = "ok"}

\* the application registers listeners with sorted resource arrays, and
\* requests come in
NextFind == RegisterListener \/ Listen(FindDatagrams)

SpecFind == InitApp /\ [][NextFind]_vars

\* the resources with the path url that allow method, as <<listener, index>>
Matching(url, method) ==
    {li \in (1..Len(listeners)) \X (1..MaxResources) :
        /\ li[2] <= Len(listeners[li[1]])
        /\ listeners[li[1]][li[2]].path = url
        /\ method \in listeners[li[1]][li[2]].methods}

\* li comes before or is mj in the order of listeners and of their arrays
Before(li, mj) == li[1] < mj[1] \/ (li[1] = mj[1] /\ li[2] <= mj[2])

\* the resources of rs that allow method and whose path is url or sorts
\* after it
Compatible(rs, url, method) ==
    {i \in 1..Len(rs) : method \in rs[i].methods /\ rs[i].path >= url}

\* C29: with sorted resource arrays _find_resource returns a resource
\* exactly when some registered resource has the path of the request and
\* allows its method, and then the first such one in listener order; the
\* scan of one listener ends at the first resource that allows the method
\* and whose path is the URL or sorts after it
C29_FindResource ==
    \A url \in Paths : \A method \in Methods :
        LET found == _find_resource(listeners, url, method) IN
        /\ found # NoResource <=> Matching(url, method) # {}
        /\ found # NoResource =>
              /\ found \in Matching(url, method)
              /\ \A mj \in Matching(url, method) : Before(found, mj)
        /\ \A l \in 1..Len(listeners) :
              ScanEnd(listeners[l], 1, url, method)
                = IF Compatible(listeners[l], url, method) = {}
                  THEN Len(listeners[l]) + 1
                  ELSE Min(Compatible(listeners[l], url, method))

\* C29: a listener has the resources /a and /c for GET, and another one
\* registered after it /bb for PUT only: GET /bb ends the scan of the first
\* at /c and finds no resource
C29_Witness ==
    /\ Len(listeners) = 3
    /\ listeners[2] = << [path |-> 2, methods |-> {"GET"}],
                         [path |-> 4, methods |-> {"GET"}] >>
    /\ listeners[3] = << [path |-> 3, methods |-> {"PUT"}] >>
    /\ ScanEnd(listeners[2], 1, 3, "GET") = 2
    /\ _find_resource(listeners, 3, "GET") = NoResource

\* ----------------------------------------------------------------------
\* Non-confirmable requests

\* memo i holds the header of the tracked request, which is non-confirmable
NonTracked(i) ==
    /\ tracked # 0
    /\ open_reqs[i].state # "UNUSED"
    /\ open_reqs[i].hdr_buf.b0
    /\ hdr_type(open_reqs[i].hdr_buf) = "NON"
    /\ open_reqs[i].hdr_buf.id = tracked

\* the TIMEOUT message of memo i after which the tables are P expired the
\* request: nothing was sent, no timer armed, the memo released
ExpiredAt(P, i) ==
    /\ ~P.fault
    /\ P.sent = sent
    /\ P.open_reqs[i].response_timer = open_reqs[i].response_timer
    /\ P.open_reqs[i].state = "UNUSED"

\* C30: the memo of a non-confirmable request has send_limit
\* GCOAP_SEND_LIMIT_NON as long as it holds the request, its timer is only
\* ever set to GCOAP_NON_TIMEOUT, the request is transmitted once (if no
\* sock_udp_send fails), and the first TIMEOUT message for the memo expires
\* the request without a resend
C30_NonConfirmable ==
    ~fault =>
    \A i \in MemoIdx :
        NonTracked(i) =>
            /\ open_reqs[i].send_limit = GCOAP_SEND_LIMIT_NON
            /\ open_reqs[i].response_timer \in {0, GCOAP_NON_TIMEOUT}
            /\ sent <= 1
            /\ (open_reqs[i].response_timer # 0 /\ ~failed) => sent = 1
            /\ open_reqs[i].state = "WAIT" =>
                  \A res \in SendResults :
                      ExpiredAt(event_timeout(Cur, i, res, 0), i)

\* C30: the request was transmitted and its TIMEOUT message is next
C30_Witness ==
    \E i \in MemoIdx :
        /\ NonTracked(i)
        /\ open_reqs[i].state = "WAIT"
        /\ sent = 1
        /\ msg_queue # <<>> /\ Head(msg_queue) = i

\* ----------------------------------------------------------------------
\* Responses of a type that is not handled

\* the open requests whose token is that of the response d
TokenMatches(d) ==
    {i \in GoodMemos(Cur) : hdr_token(MemoHdr(Cur, i)) = d.token}

\* the run of _listen that ends with P dropped its datagram: no handler was
\* called, nothing was sent and no table was written
Dropped(P) ==
    /\ ~P.fault
    /\ P.calls = calls
    /\ P.sent = sent
    /\ P.failed = failed
    /\ P.replies = NoReply
    /\ P.open_reqs = open_reqs
    /\ P.resend_bufs = resend_bufs
    /\ P.thr = thr

\* C31: a response of type CON or RST whose token is that of an open
\* request is dropped: the handler is not called, no datagram is sent, and
\* state, send_limit, timer and resend buffer of the memo stay as they are
C31_ConResponseDropped ==
    ~fault =>
    \A d \in ResponseDatagrams : \A ub \in NullOutcomes :
        (d.type \in {"CON", "RST"} /\ TokenMatches(d) # {})
        => Dropped(_listen([Cur EXCEPT !.ub = ub], d))

\* ----------------------------------------------------------------------
\* gcoap_req_send2 and the mutex of the tables

\* either build; the task with the highest PID is the engine task, which
\* calls gcoap_req_send2 from a handler as application threads do from
\* their own code
InitMutex ==
    /\ wait_for_response \in BOOLEAN
    /\ max_retransmit = COAP_MAX_RETRANSMIT
    /\ random_factor = <<1, 1>>
    /\ listeners = Listeners
    /\ now = 0
    /\ ZeroTables
    /\ _pid = NumThreads
    /\ engine = "running"
    /\ init_ret = <<NumThreads>>
    /\ next_message_id = 1

NextMutex ==
    \/ \E t \in Threads :
         ReqInit(t, MaxReqs, ReqTypes) \/ Submit(t) \/ ReqSend2Woken(t)
    \/ \E i \in MemoIdx : TimerFire(i)
    \/ ListenNoData

SpecMutex == InitMutex /\ [][NextMutex]_vars

\* C32: gcoap_req_send2 holds the mutex of the tables only between its
\* mutex_lock and the end of the switch on the message type: a task that
\* has returned from the call, that is about to send, to arm the timer or
\* to clean up, or that sleeps, does not hold it, in either build and on
\* the engine task as well
C32_MutexReleased ==
    \A t \in Threads : thr[t].pc \notin {"scan", "fill"} => lock # t

\* ----------------------------------------------------------------------
\* The pool of resend buffers

\* the resend buffers in use: those with a first byte that is not zero
BufsInUse == {j \in BufIdx : resend_bufs[j].b0}

\* the memos that hold a confirmable request
ConMemos ==
    {i \in MemoIdx : /\ open_reqs[i].state # "UNUSED"
                     /\ open_reqs[i].send_limit # GCOAP_SEND_LIMIT_NON}

\* a thread is inside gcoap_req_send2 with a confirmable request
Submitting(t) == thr[t].pc # "idle" /\ hdr_type(thr[t].buf) = "CON"

\* C33: a step marks at most one resend buffer in use, and the switch of
\* gcoap_req_send2 marks exactly one for a confirmable request if one is
\* free; two memos with a confirmable request do not refer to the same
\* buffer; with no confirmable request in a memo or in submission every
\* resend buffer is free
C33_ResendBuffers ==
    [][/\ Cardinality(BufsInUse' \ BufsInUse) <= 1
       /\ \A t \in Threads :
            (/\ thr[t].pc = "fill" /\ thr'[t].pc = "check"
             /\ hdr_type(thr[t].buf) = "CON" /\ BufsInUse # BufIdx)
            => Cardinality(BufsInUse' \ BufsInUse) = 1
       /\ \A i, j \in ConMemos' :
            (i # j /\ open_reqs'[i].pdu_buf > 0)
            => open_reqs'[i].pdu_buf # open_reqs'[j].pdu_buf
       /\ (ConMemos' = {} /\ \A t \in Threads : ~Submitting(t)')
          => BufsInUse' = {}]_vars

\* ----------------------------------------------------------------------
\* The tinydtls sock wrapper (tdtls.c)

\* bytes of an IPv6 address: sizeof(remote->addr.ipv6) of sock_udp_ep_t and
\* sizeof(session->addr.u8) of the session_t of tinydtls
IPV6_ADDR_LEN == 16
SOCK_ADDR_ANY_NETIF == 0

MaxAddr == 3
MaxNetif == 1

AddrIdx == 1..IPV6_ADDR_LEN

\* some addresses: the unspecified address and three byte patterns
AddrOf(k) == [b \in AddrIdx |-> (k * 85 * b) % 256]
Addrs == {AddrOf(k) : k \in 0..MaxAddr}
Ports == {0, 1, 255, 256, 5683, 2 ^ 16 - 1}

\* the endpoints a caller passes
Endpoints ==
    [family : {"AF_INET6"}, addr : Addrs, port : Ports, netif : 0..MaxNetif]

\* what a local sock_udp_ep_t or session_t holds before it is written
JunkEndpoints ==
    [family : {"AF_UNSPEC"}, addr : {AddrOf(0), AddrOf(MaxAddr)},
     port : {2 ^ 16 - 1}, netif : {MaxNetif}]
JunkSessions ==
    [size : {0}, addr : {AddrOf(0), AddrOf(MaxAddr)}, port : {2 ^ 16 - 1},
     ifindex : {MaxNetif}]

\* memcpy of n bytes
memcpy(dst, src, n) == [b \in DOMAIN dst |-> IF b <= n THEN src[b] ELSE dst[b]]

\* assignment to a uint16_t or unsigned short
uint16(v) == v % 2 ^ 16

_copy_sock_ep(remote, session) ==
    [session EXCEPT !.size = IPV6_ADDR_LEN + 2,
                    !.addr = memcpy(@, remote.addr, IPV6_ADDR_LEN),
                    !.port = uint16(remote.port),
                    !.ifindex = remote.netif]

\* a variant that copies the bytes of an IPv4 address only
_copy_tdsec_ep_v4(session, remote) ==
    [remote EXCEPT !.family = "AF_INET6",
                   !.addr = memcpy(@, session.addr, 4),
                   !.port = uint16(session.port),
                   !.netif = SOCK_ADDR_ANY_NETIF]
_copy_tdsec_ep(session, remote) ==
    [remote EXCEPT !.family = "AF_INET6",
                   !.addr = memcpy(@, session.addr, IPV6_ADDR_LEN),
                   !.port = uint16(session.port),
                   !.netif = SOCK_ADDR_ANY_NETIF]

TdsecUnchanged ==
    UNCHANGED <<wait_for_response, msgids, _pid, engine, init_ret, pdus,
                max_retransmit, random_factor, elapsed, times, now,
                last_observe, listeners, app, open_reqs, resend_bufs,
                observers, observe_memos, lock, next_message_id, msg_queue,
                intr, bounded, thr, tracked, sent, calls, failed, fault>>

\* the wrapper is between two calls
TdsecReturned == tdsec.pc \in {"idle", "sent", "received"}

\* tdsec_send up to dtls_write: the remote is converted to a session
TdsecSend(remote) ==
    /\ TdsecReturned
    /\ \E session \in JunkSessions :
         tdsec' = [pc |-> "dtls_write", remote |-> remote,
                   session |-> _copy_sock_ep(remote, session)]
    /\ TdsecUnchanged

\* tdsec_read_msg up to dtls_handle_message
TdsecReadMsg(remote) ==
    /\ TdsecReturned
    /\ \E session \in JunkSessions :
         tdsec' = [pc |-> "dtls_handle_message", remote |-> remote,
                   session |-> _copy_sock_ep(remote, session)]
    /\ TdsecUnchanged

\* _send_to_remote, the write callback of tinydtls, called with the
\* session: it is converted back and handed to sock_udp_send
SendToRemote ==
    /\ tdsec.pc = "dtls_write"
    /\ \E sock_remote \in JunkEndpoints :
         tdsec' = [pc |-> "sent", remote |-> tdsec.remote,
                   session |-> tdsec.session,
                   sock_remote |-> _copy_tdsec_ep(tdsec.session, sock_remote)]
    /\ TdsecUnchanged

\* _recv_from_dtls, the read callback: the endpoint goes to recv_handler
RecvFromDtls ==
    /\ tdsec.pc = "dtls_handle_message"
    /\ \E sock_remote \in JunkEndpoints :
         tdsec' = [pc |-> "received", remote |-> tdsec.remote,
                   session |-> tdsec.session,
                   sock_remote |-> _copy_tdsec_ep(tdsec.session, sock_remote)]
    /\ TdsecUnchanged

NextTdtls ==
    \/ \E remote \in Endpoints : TdsecSend(remote) \/ TdsecReadMsg(remote)
    \/ SendToRemote
    \/ RecvFromDtls

SpecTdtls == Init /\ [][NextTdtls]_vars

\* C34: the endpoint that _copy_tdsec_ep makes of the session that
\* _copy_sock_ep made of an endpoint has the IPv6 address and the port of
\* that endpoint, whatever the locals held before
C34_EndpointRoundTrip ==
    tdsec.pc \in {"sent", "received"}
    => /\ tdsec.sock_remote.addr = tdsec.remote.addr
       /\ tdsec.sock_remote.port = tdsec.remote.port

C34_Witness ==
    /\ tdsec.pc = "sent"
    /\ tdsec.remote.addr = AddrOf(1)
    /\ tdsec.remote.port = 2 ^ 16 - 1
    /\ tdsec.session.addr = AddrOf(1)
    /\ tdsec.sock_remote.netif # tdsec.remote.netif

\* ----------------------------------------------------------------------
\* A request that is not transmitted

\* the resend buffers that the memos with a confirmable request refer to
BufsOfMemos == {open_reqs[k].pdu_buf : k \in ConMemos}

\* C35: when sock_udp_send has returned 0 for the request, or mbox_try_put
\* has failed, gcoap_req_send2 returns 0 and leaves the response timer
\* of the memo as it was, the memo is UNUSED and, for a confirmable request, no
\* resend buffer is left in use but those of the other open requests
C35_NotTransmitted ==
    [][\A t \in Threads :
         (thr[t].pc = "fail" /\ thr'[t].pc = "idle")
         => /\ (thr[t].buf.id = tracked => thr'[t].res = 0)
            /\ open_reqs'[thr[t].memo].state = "UNUSED"
            /\ open_reqs'[thr[t].memo].response_timer
                   = open_reqs[thr[t].memo].response_timer
            /\ hdr_type(thr[t].buf) = "CON" => BufsInUse' \subseteq BufsOfMemos'
      ]_vars

\* ----------------------------------------------------------------------
\* A TIMEOUT message that outlives its request

\* one application thread submits confirmable and non-confirmable
\* requests, their timers expire, and piggybacked responses arrive
NextStale ==
    \/ ReqInit(1, MaxReqsFull, {"CON", "NON"}) \/ Submit(1)
    \/ \E i \in MemoIdx : TimerFire(i)
    \/ Listen(OneDatagrams)
    \/ ListenNoData

SpecStale == Init /\ [][NextStale]_vars

\* thread t has filled memo i for its request and has not yet armed the
\* response timer, while a TIMEOUT message for memo i is in the queue of
\* the engine: the message was sent by a timer armed for another request
StaleTimeout(t, i) ==
    /\ thr[t].pc \in {"check", "arm"}
    /\ thr[t].memo = i
    /\ open_reqs[i].state = "WAIT"
    /\ MemoHdrOk(Cur, i)
    /\ MemoHdr(Cur, i).id = thr[t].buf.id
    /\ \E k \in 1..Len(msg_queue) : msg_queue[k] = i

\* the handling of a message has left memo i and its request alone
Unaffected(P, i) ==
    /\ ~P.fault
    /\ P.open_reqs[i] = open_reqs[i]
    /\ P.resend_bufs = resend_bufs
    /\ P.sent = sent /\ P.failed = failed /\ P.calls = calls

\* C36: a TIMEOUT message that was queued for the request a memo held
\* before does nothing to the request the memo holds now: the request is
\* neither retransmitted nor expired, its send_limit and timer stay
C36_StaleTimeoutIgnored ==
    ~fault =>
    \A t \in Threads : \A i \in MemoIdx :
        StaleTimeout(t, i)
        => \A res \in SendResults : \A jit \in JitterChoices :
             Unaffected(event_timeout(Cur, i, res, jit), i)

\* ----------------------------------------------------------------------
\* The remote of a notification

\* C37: when gcoap_obs_send reads memo->observer to pass it on as the
\* remote of sock_udp_send or gcoap_req_send2, the pointer is not NULL,
\* whatever the engine has done since the memo was looked up
C37_RemoteNotNull ==
    \A t \in Threads :
        thr[t].pc = "obs_use" => observe_memos[thr[t].obs].observer # 0

\* ----------------------------------------------------------------------
\* Observer slots

\* C38: between the datagrams and the timeouts that the engine handles,
\* every observer slot in use (family not AF_UNSPEC) is the observer of an
\* observe memo in use
C38_NoObserverLeaked ==
    ~fault =>
    \A k \in ObsIdx :
        observers[k].family # "AF_UNSPEC"
            => \E m \in InUseMemos : observe_memos[m].observer = k

\* ----------------------------------------------------------------------
\* The sender of a response

\* C39: a response that comes from another endpoint than the one the
\* open requests were sent to, with the token of a request that waits
\* with its timer armed, completes no request: no handler is called, no
\* timer removed, no memo released
C39_ResponseFromRemote ==
    ~fault =>
    \A d \in ResponseDatagrams : \A ub \in NullOutcomes :
        (/\ d.remote # RequestRemote
         /\ \E i \in TokenMatches(d) : open_reqs[i].response_timer # 0)
        => Dropped(_listen([Cur EXCEPT !.ub = ub], d))

\* ----------------------------------------------------------------------
\* A submission that fails under the mutex

\* the switch of gcoap_req_send2 has released the memo of thread t again
\* (no resend buffer, or an illegal message type): timeout is still 0
FailedLocked(t) == thr[t].pc = "check" /\ thr[t].timeout = 0

\* C40: a submission that has failed under the mutex returns 0 from its
\* test of memo->state and hands nothing to sock_udp_send, whatever other
\* submitters have done since mutex_unlock
C40_FailedLockedReturns ==
    [][\A t \in Threads :
         (FailedLocked(t) /\ thr'[t] # thr[t])
         => /\ thr'[t].pc = "idle"
            /\ thr[t].buf.id = tracked => thr'[t].res = 0
            /\ sent' = sent /\ failed' = failed
      ]_vars

====
